---- MODULE Spec2Model ----
(***************************************************************************)
(* Itinerary simulation engine of the road-trip planner                    *)
(* (src/utils/schedule.py, class SchedulePlanner).                         *)
(*                                                                         *)
(* Units.  Distances are metres and times are seconds, as in the source.   *)
(* A datetime is the number of seconds since 00:00 of the departure date;  *)
(* .date() is t \div 86400 and .time() is t % 86400.                       *)
(* Fuel is held in units of 1/(1000*mileage) litre, the fuel that drives   *)
(* one metre, so that the source's "step_distance_km / mileage" is exact:  *)
(* x litres are x*mileage*1000 units, and d metres need d units.           *)
(* Prices are paise per litre; a cost is fuel units times price, the       *)
(* source's cost in rupees times 100*1000*mileage.                         *)
(***************************************************************************)
EXTENDS Integers, Sequences, FiniteSets, TLC

VARIABLES
    \* inputs of plan_schedule, fixed for one plan request
    steps,                   \* leg['steps']: <<[distance, duration, contiguous]>>
    total_distance,          \* leg['distance']['value']
    total_duration,          \* leg['duration']['value']
    mileage, tank_size,
    departure_time, driving_hours_start, driving_hours_end,
    breakfast_time, lunch_time, dinner_time,
    outage,                  \* the collaborators that are down during the call
    \* _calculate_fuel_stops
    fuel_pc, fuel_i, current_fuel, distance_covered_total,
    last_fuel_stop_distance, fuel_stops,
    total_trip_fuel_cost, total_trip_fuel_used,
    station_calls,           \* calls made to places_service.get_fuel_station
    \* _calculate_rest_stops
    rest_pc, rest_i, rest_current_time, seconds_driven_today,
    rest_distance_covered, rest_last_stop_distance, total_time_needed,
    rest_stops,
    driving_duration,        \* read by the first step of the walk
    \* _calculate_meal_stops
    meal_pc, meal_i, meal_current_time, meal_distance_covered,
    meal_last_stop_distance, processed_meal_times, meal_stops,
    meal_k,                  \* position of the inner loop in all_meal_times
    \* plan_schedule and the planner instance
    plan_pc,
    self_rest_stops,         \* self.rest_stops
    directions,              \* what maps_service.get_directions returned
    plan_run,                \* which plan_schedule call on this planner is running
    first_plan,              \* what the first call returned and was answered
    other_pc,                \* another plan_schedule call running on this planner
    returned_rest_stops,     \* 'rest_stops' of the dict plan_schedule returned
    \* the plan flow of app.py after plan_schedule, and TollService
    vehicle_type,
    api_key,                 \* TollService.api_key is set (TOLLGURU_API_KEY)
    app_pc,
    toll_response,           \* what the toll provider answered to the request
    fuel_cost,               \* fuel_cost['fuel_cost']
    toll_cost,               \* the dict returned by calculate_toll_cost
    total_cost

inputVars == <<steps, total_distance, total_duration, mileage, tank_size,
               departure_time, driving_hours_start, driving_hours_end,
               breakfast_time, lunch_time, dinner_time, outage>>
fuelVars == <<fuel_pc, fuel_i, current_fuel, distance_covered_total,
              last_fuel_stop_distance, fuel_stops,
              total_trip_fuel_cost, total_trip_fuel_used, station_calls>>
restVars == <<rest_pc, rest_i, rest_current_time, seconds_driven_today,
              rest_distance_covered, rest_last_stop_distance, total_time_needed,
              rest_stops, driving_duration>>
mealVars == <<meal_pc, meal_i, meal_current_time, meal_distance_covered,
              meal_last_stop_distance, processed_meal_times, meal_stops, meal_k>>
planVars == <<plan_pc, self_rest_stops, directions, plan_run, first_plan, other_pc,
              returned_rest_stops>>
appVars == <<vehicle_type, api_key, app_pc, toll_response, fuel_cost, toll_cost, total_cost>>
vars == <<inputVars, fuelVars, restVars, mealVars, planVars, appVars>>

----------------------------------------------------------------------------
(* Bounds *)

MaxSteps == 3
StepDistancesKm == {10, 100, 170, 180, 400}
VehicleTanks == {20}
VehicleMileages == {10}
\* prices in paise per litre: 96.72 and 100 rupees
PetrolPrices == {9672, 10000}
StepDurationsHours == {1, 6, 8, 13}
DepartureHours == {6, 12, 18}
MealStepDurationsMinutes == {20, 60, 480, 780}
\* breakfast hours of MealSpec: the driving window start and the default
BreakfastHours == {6, 8}
\* <<kilometres, hours>> of the steps of Spec
PlanStepKinds == {<<100, 1>>, <<180, 8>>}
\* toll booths of one provider answer, and their cash and FASTag costs
MaxBooths == 3
TollCashCosts == {0, 40}
TollTagCosts == {0, 35}
\* what the leg's totals are off the sums over the steps: not at all, or the
\* distance by so many kilometres and the duration by so many hours
SumOfSteps == {0}
LegDistancesOffKm == {-30, 0, 20}
LegDurationsOffHours == {0, 1}
\* the distances of LegSpec: the sum over the steps, or 200 km short of it
LegShortfallsKm == {-200, 0}
\* segment lengths (km) into which the 500 km and the 1000 km trip are divided
Trip500SegmentsKm == {50, 100, 200, 500}
Trip1000SegmentsKm == {100, 300, 400, 500, 1000}

----------------------------------------------------------------------------
(* Helpers *)

Max(a, b) == IF a >= b THEN a ELSE b
Min(a, b) == IF a <= b THEN a ELSE b
Last(s) == s[Len(s)]

RECURSIVE GCD(_, _)
GCD(a, b) == IF b = 0 THEN a ELSE GCD(b, a % b)

\* A length that is not a whole number of metres: whole + num / den metres,
\* with 0 <= num < den and num / den in lowest terms (den = 1 when num = 0)
Metres(whole) == [whole |-> whole, num |-> 0, den |-> 1]

\* whole + num / den for any integer num and den > 0, as a length
MetresAndFraction(whole, num, den) ==
    LET carry == num \div den
        rest  == num % den
        g     == GCD(den, rest)
    IN  [whole |-> whole + carry, num |-> rest \div g, den |-> den \div g]

\* x - y
LengthMinus(x, y) ==
    LET g     == GCD(x.den, y.den)
        x_up  == y.den \div g
        y_up  == x.den \div g
    IN  MetresAndFraction(x.whole - y.whole, x.num * x_up - y.num * y_up,
                          x.den * x_up)

\* x <= y
LengthAtMost(x, y) == LengthMinus(y, x).whole >= 0

\* variant of MulDiv: the fraction of a metre is dropped
MulDivWhole(a, b, c) == Metres((a \div c) * b + ((a % c) * b) \div c)

\* a * (b / c) for a, b >= 0 and c > 0, as a length; the common factors are
\* taken out first, which keeps the products small
MulDiv(a, b, c) ==
    LET g1 == GCD(a, c)
        a1 == a \div g1
        c1 == c \div g1
        g2 == GCD(b, c1)
        b1 == b \div g2
        c2 == c1 \div g2
    IN  MetresAndFraction((a1 \div c2) * b1, (a1 % c2) * b1, c2)

\* A cost, high * CostBase + low with 0 <= low < CostBase: a product of fuel
\* units and paise does not fit into 32 bits
CostBase == 1000000
Cost(high, low) == [high |-> high + low \div CostBase, low |-> low % CostBase]
NoCost == Cost(0, 0)

\* x + y
CostPlus(x, y) == Cost(x.high + y.high, x.low + y.low)

\* n * k for 0 <= n and 0 <= k < 2000000
CostTimes(n, k) ==
    Cost(((n \div 1000) * k) \div 1000, (((n \div 1000) * k) % 1000) * 1000 + (n % 1000) * k)

Day == 24 * 3600
Hour == 3600
\* marks an optional key that a dict does not carry (or carries as None)
Absent == -1
\* datetime.date() as a day number, datetime.time() as seconds after midnight
DateOf(t) == t \div Day
TimeOf(t) == t % Day
\* datetime.combine(date, time)
Combine(date, time) == date * Day + time

RECURSIVE SumDistance(_, _)
SumDistance(s, n) == IF n = 0 THEN 0 ELSE SumDistance(s, n - 1) + s[n].distance

RECURSIVE SumDuration(_, _)
SumDuration(s, n) == IF n = 0 THEN 0 ELSE SumDuration(s, n - 1) + s[n].duration

RECURSIVE SeqsUpTo(_, _)
SeqsUpTo(S, n) ==
    IF n = 0 THEN {<< >>}
    ELSE LET shorter == SeqsUpTo(S, n - 1)
         IN  shorter \cup {Append(s, x) : s \in {t \in shorter : Len(t) = n - 1}, x \in S}

----------------------------------------------------------------------------
(* Python floats: IEEE 754 binary64 with round-to-nearest, ties to even.    *)
(* A float is [neg, mant, exp] and stands for (-1)^neg * mant * 2^exp. mant *)
(* is a natural number of at most 53 bits, held as a sequence of limbs of   *)
(* 15 bits, least significant limb first, without leading zero limbs; mant  *)
(* is odd, or << >> for zero with neg = FALSE and exp = 0, so that equal    *)
(* floats are equal records. Overflow, subnormal numbers, infinities and    *)
(* NaN are out of reach of the magnitudes of a route.                       *)

LimbBits == 15
Limb == 2^LimbBits
MantissaBits == 53

\* the natural number n < 2^31 as limbs
RECURSIVE LimbsOf(_)
LimbsOf(n) == IF n = 0 THEN << >> ELSE <<n % Limb>> \o LimbsOf(n \div Limb)

\* s without its leading zero limbs
RECURSIVE Trimmed(_)
Trimmed(s) ==
    IF s = << >> THEN s
    ELSE IF s[Len(s)] = 0 THEN Trimmed(SubSeq(s, 1, Len(s) - 1))
    ELSE s

\* the number of bits of the natural number n < 2^31
RECURSIVE BitsOf(_)
BitsOf(n) == IF n = 0 THEN 0 ELSE 1 + BitsOf(n \div 2)

BitLength(s) == IF s = << >> THEN 0 ELSE LimbBits * (Len(s) - 1) + BitsOf(s[Len(s)])

\* s * k + carry for 0 <= k <= Limb
RECURSIVE TimesSmall(_, _, _)
TimesSmall(s, k, carry) ==
    IF s = << >> THEN LimbsOf(carry)
    ELSE LET t == s[1] * k + carry
         IN  <<t % Limb>> \o TimesSmall(Tail(s), k, t \div Limb)

\* the quotient and the remainder of s by d, for 0 < d <= Limb; the limbs
\* are taken from the most significant one down, rem is the running remainder
RECURSIVE OverSmallFrom(_, _, _)
OverSmallFrom(s, d, rem) ==
    IF s = << >> THEN [quot |-> << >>, rem |-> rem]
    ELSE LET t    == rem * Limb + s[Len(s)]
             rest == OverSmallFrom(SubSeq(s, 1, Len(s) - 1), d, t % d)
         IN  [quot |-> Append(rest.quot, t \div d), rem |-> rest.rem]

\* a + b + carry
RECURSIVE Sum(_, _, _)
Sum(a, b, carry) ==
    IF a = << >> /\ b = << >> THEN LimbsOf(carry)
    ELSE LET x == IF a = << >> THEN 0 ELSE a[1]
             y == IF b = << >> THEN 0 ELSE b[1]
             t == x + y + carry
         IN  <<t % Limb>> \o Sum(IF a = << >> THEN a ELSE Tail(a),
                                 IF b = << >> THEN b ELSE Tail(b), t \div Limb)

\* a - b - borrow for a >= b + borrow, before trimming
RECURSIVE DifferenceFrom(_, _, _)
DifferenceFrom(a, b, borrow) ==
    IF a = << >> THEN << >>
    ELSE LET y == IF b = << >> THEN 0 ELSE b[1]
             t == a[1] - y - borrow
         IN  <<t % Limb>> \o DifferenceFrom(Tail(a), IF b = << >> THEN b ELSE Tail(b),
                                            IF t < 0 THEN 1 ELSE 0)

Difference(a, b) == Trimmed(DifferenceFrom(a, b, 0))

\* -1, 0 or 1 as a < b, a = b or a > b
RECURSIVE Compared(_, _)
Compared(a, b) ==
    IF Len(a) # Len(b) THEN (IF Len(a) < Len(b) THEN -1 ELSE 1)
    ELSE IF a = << >> THEN 0
    ELSE IF a[Len(a)] # b[Len(b)] THEN (IF a[Len(a)] < b[Len(b)] THEN -1 ELSE 1)
    ELSE Compared(SubSeq(a, 1, Len(a) - 1), SubSeq(b, 1, Len(b) - 1))

\* k zero limbs
RECURSIVE ZeroLimbs(_)
ZeroLimbs(k) == IF k = 0 THEN << >> ELSE <<0>> \o ZeroLimbs(k - 1)

\* s * 2^k
ShiftedLeft(s, k) ==
    IF s = << >> THEN s
    ELSE ZeroLimbs(k \div LimbBits) \o TimesSmall(s, 2^(k % LimbBits), 0)

\* s \div 2^k
ShiftedRight(s, k) ==
    IF k \div LimbBits >= Len(s) THEN << >>
    ELSE Trimmed(OverSmallFrom(SubSeq(s, k \div LimbBits + 1, Len(s)),
                               2^(k % LimbBits), 0).quot)

\* s % 2^k
LowBits(s, k) ==
    IF k \div LimbBits >= Len(s) THEN s
    ELSE Trimmed(Append(SubSeq(s, 1, k \div LimbBits),
                        s[k \div LimbBits + 1] % 2^(k % LimbBits)))

\* the number of zero bits at the low end of s # << >>
RECURSIVE TrailingZeros(_)
TrailingZeros(s) ==
    IF s[1] = 0 THEN LimbBits + TrailingZeros(Tail(s))
    ELSE IF s[1] % 2 = 0 THEN 1 + TrailingZeros(<<s[1] \div 2>>)
    ELSE 0

Zero == [neg |-> FALSE, mant |-> << >>, exp |-> 0]

\* mant * 2^exp with its sign, for a mant # << >> that ends in low zero bits
WithoutLowZeros(neg, mant, exp, low) ==
    [neg |-> neg, mant |-> ShiftedRight(mant, low), exp |-> exp + low]

\* mant * 2^exp with its sign, as the record that stands for it
Canonical(neg, mant, exp) ==
    IF mant = << >> THEN Zero
    ELSE WithoutLowZeros(neg, mant, exp, TrailingZeros(mant))

\* the mantissa kept of a number, or the next one up: up when the dropped
\* bits are more than half a unit of the last bit kept, and on a tie when
\* something more was dropped before (sticky) or the mantissa kept is odd
RoundedUp(kept, dropped_to_half, sticky) ==
    IF \/ dropped_to_half > 0
       \/ dropped_to_half = 0 /\ (sticky \/ kept[1] % 2 = 1)
    THEN Sum(kept, <<1>>, 0)
    ELSE kept

\* Rounded for a mant of MantissaBits + excess bits
RoundedBy(neg, mant, exp, sticky, excess) ==
    Canonical(neg,
              IF excess <= 0 THEN mant
              ELSE RoundedUp(ShiftedRight(mant, excess),
                             Compared(LowBits(mant, excess),
                                      ShiftedLeft(<<1>>, excess - 1)),
                             sticky),
              IF excess <= 0 THEN exp ELSE exp + excess)

\* The float nearest to mant * 2^exp, plus a positive amount below one unit
\* of mant's last bit when sticky; ties go to the even mantissa. With sticky
\* mant has more than MantissaBits bits.
Rounded(neg, mant, exp, sticky) ==
    RoundedBy(neg, mant, exp, sticky, BitLength(mant) - MantissaBits)

\* float(n) for an int n of less than 2^31 in size
FloatOf(n) == Canonical(n < 0, LimbsOf(IF n < 0 THEN -n ELSE n), 0)

Negated(x) == IF x = Zero THEN x ELSE [x EXCEPT !.neg = ~x.neg]

\* a * 2^exp with the sign x_neg plus b * 2^exp with the sign y_neg, where
\* a compares to b as order says
PlusOrdered(x_neg, a, y_neg, b, exp, order) ==
    Rounded(IF x_neg = y_neg \/ order > 0 THEN x_neg ELSE y_neg,
            IF x_neg = y_neg THEN Sum(a, b, 0)
            ELSE Difference(IF order > 0 THEN a ELSE b, IF order > 0 THEN b ELSE a),
            exp, FALSE)

PlusOf(x_neg, a, y_neg, b, exp) == PlusOrdered(x_neg, a, y_neg, b, exp, Compared(a, b))

\* x + y with both mantissas taken to the exponent exp
PlusAt(x, y, exp) ==
    PlusOf(x.neg, ShiftedLeft(x.mant, x.exp - exp),
           y.neg, ShiftedLeft(y.mant, y.exp - exp), exp)

\* x + y
Plus(x, y) == PlusAt(x, y, IF x.exp < y.exp THEN x.exp ELSE y.exp)

\* x - y
Minus(x, y) == Plus(x, Negated(y))

\* x * k for an int 0 <= k <= Limb
Times(x, k) == Rounded(x.neg, Trimmed(TimesSmall(x.mant, k, 0)), x.exp, FALSE)

\* the float nearest to the quotient q.quot and remainder q.rem of a division
RoundedQuotient(neg, q, exp) == Rounded(neg, Trimmed(q.quot), exp, q.rem # 0)

\* x / d for an int 0 < d <= Limb: the dividend is shifted until the quotient
\* has more bits than a mantissa holds, and the quotient is rounded
Over(x, d) ==
    RoundedQuotient(x.neg,
                    OverSmallFrom(ShiftedLeft(x.mant, MantissaBits + 2 + BitsOf(d)), d, 0),
                    x.exp - (MantissaBits + 2 + BitsOf(d)))

\* x < y
Below(x, y) == Minus(x, y).neg

\* the float 0.15, 5404319552844595 * 2^-55
Float015 == [neg |-> FALSE, mant |-> <<13107, 26214, 19660, 153>>, exp |-> -55]

\* the float 0.85, 7656119366529843 * 2^-53
Float085 == [neg |-> FALSE, mant |-> <<13107, 26214, 19660, 217>>, exp |-> -53]

----------------------------------------------------------------------------
(* _calculate_fuel_stops *)

\* The walk computes levels, amounts and positions in floats. A quantity of
\* the model is the number in exact arithmetic together with the float the
\* code holds for it: exact is the number of fuel units (1 / (1000 * mileage)
\* litre, the fuel of one metre) of a quantity in litres, and the number of
\* metres of a position in kilometres or in metres. rounded says that the
\* float of the code is not that number, and float is then the float (Zero
\* otherwise). The floats decide every comparison of the walk; the stops are
\* recorded in the exact numbers.
Divisor(kind) ==
    CASE kind = "litres" -> 1000 * mileage
      [] kind = "km"     -> 1000
      [] kind = "m"      -> 1

\* d without its factors of two, and their number
RECURSIVE OddPart(_)
OddPart(d) == IF d % 2 = 0 THEN OddPart(d \div 2) ELSE d
RECURSIVE TwosIn(_)
TwosIn(d) == IF d % 2 = 0 THEN 1 + TwosIn(d \div 2) ELSE 0

\* exact / Divisor(kind) is a float: in lowest terms its denominator is a
\* power of two (the numbers of the model are below 2^31, so that the 53 bits
\* of a float hold the numerator)
IsFloat(exact, kind) == exact % OddPart(Divisor(kind)) = 0

\* the float exact / Divisor(kind), when that number is a float
ExactFloat(exact, kind) ==
    Canonical(exact < 0,
              LimbsOf((IF exact < 0 THEN -exact ELSE exact) \div OddPart(Divisor(kind))),
              -TwosIn(Divisor(kind)))

\* the divisions by which the code computes a quantity of the kind from an
\* int: (m / 1000) / mileage, m / 1000 and none
Divisions(kind) ==
    CASE kind = "litres" -> <<1000, mileage>>
      [] kind = "km"     -> <<1000>>
      [] kind = "m"      -> << >>

\* x divided by each of the divisors in turn
RECURSIVE OverAll(_, _)
OverAll(x, divisors) ==
    IF divisors = << >> THEN x
    ELSE OverAll(Over(x, Head(divisors)), Tail(divisors))

Exactly(exact, kind) == [exact |-> exact, kind |-> kind, rounded |-> FALSE, float |-> Zero]

\* the quantity held as the given float
Amount(float, exact, kind) ==
    IF IsFloat(exact, kind) /\ float = ExactFloat(exact, kind) THEN Exactly(exact, kind)
    ELSE [exact |-> exact, kind |-> kind, rounded |-> TRUE, float |-> float]

\* the quantity that the code computes from an int by the divisions of its
\* kind; the divisions do not round when exact / Divisor(kind) is a float
FromExact(exact, kind) ==
    IF IsFloat(exact, kind) THEN Exactly(exact, kind)
    ELSE Amount(OverAll(FloatOf(exact), Divisions(kind)), exact, kind)

FloatIn(x) == IF x.rounded THEN x.float ELSE ExactFloat(x.exact, x.kind)

\* x + y and x - y: an operation on floats gives the exact result when that
\* is a float, and the float nearest to it otherwise
AmountPlus(x, y) ==
    IF ~x.rounded /\ ~y.rounded /\ IsFloat(x.exact + y.exact, x.kind)
    THEN Exactly(x.exact + y.exact, x.kind)
    ELSE Amount(Plus(FloatIn(x), FloatIn(y)), x.exact + y.exact, x.kind)
AmountMinus(x, y) ==
    IF ~x.rounded /\ ~y.rounded /\ IsFloat(x.exact - y.exact, x.kind)
    THEN Exactly(x.exact - y.exact, x.kind)
    ELSE Amount(Minus(FloatIn(x), FloatIn(y)), x.exact - y.exact, x.kind)
\* x * k for an int k, a quantity of the given kind:
\* litres * mileage are kilometres and kilometres * 1000 are metres
AmountTimes(x, k, kind) ==
    IF ~x.rounded /\ IsFloat(x.exact, kind) THEN Exactly(x.exact, kind)
    ELSE Amount(Times(FloatIn(x), k), x.exact, kind)
\* x < y and x <= y as the code evaluates them
AmountBelow(x, y) ==
    IF ~x.rounded /\ ~y.rounded THEN x.exact < y.exact
    ELSE Below(FloatIn(x), FloatIn(y))
AmountAtMost(x, y) == ~AmountBelow(y, x)
\* min(x, y) and max(x, y)
AmountSmaller(x, y) == IF AmountBelow(y, x) THEN y ELSE x
AmountLarger(x, y) == IF AmountBelow(x, y) THEN y ELSE x
\* max(0, x)
AtLeastNone(x) == AmountLarger(Exactly(0, x.kind), x)

\* tank_size litres, in fuel units
TankFuel == tank_size * mileage * 1000

\* tank_size
FullTank == Exactly(TankFuel, "litres")

\* variant of LowFuelLevel: the fraction is taken from the wrong side, 85% of
\* the tank counts as low
LowFuelLevelInverted ==
    Amount(Times(Float085, tank_size), (tank_size * mileage * 1000 * 85) \div 100, "litres")

\* tank_size * 0.15. The float 0.15 is not 0.15, and the product is a float
\* that is not 0.15 * tank_size unless that number is a float: then, for
\* every tank_size up to Limb, the product rounds to it.
LowFuelLevel ==
    LET exact == (tank_size * mileage * 1000 * 15) \div 100
    IN  IF IsFloat(exact, "litres") THEN Exactly(exact, "litres")
        ELSE [exact |-> exact, kind |-> "litres", rounded |-> TRUE,
              float |-> Times(Float015, tank_size)]

\* m / 1000 for a number of metres m
Kilometres(m) == FromExact(m, "km")

\* step_distance_km / mileage, with step_distance_km = step_distance_m / 1000
FuelForDistance(step_distance_m) == FromExact(step_distance_m, "litres")

\* fuel_needed_for_step = max(0, step_distance_km / mileage)
FuelNeededForStep(step_distance_m) == AtLeastNone(FuelForDistance(step_distance_m))

\* variant of ProactiveCheck: a level equal to the reserve does not count
ProactiveCheckBelowReserve(fuel_at_start_of_step, fuel_needed_for_step) ==
    AmountBelow(AmountMinus(fuel_at_start_of_step, fuel_needed_for_step), LowFuelLevel)

\* 1. proactive check
ProactiveCheck(fuel_at_start_of_step, fuel_needed_for_step) ==
    AmountAtMost(AmountMinus(fuel_at_start_of_step, fuel_needed_for_step), LowFuelLevel)

\* variant of DistanceCanTravelBefore15Percent: the reserve is not kept back
DistanceCanTravelOnWholeTank(fuel_at_start_of_step) ==
    AtLeastNone(AmountTimes(fuel_at_start_of_step, mileage, "km"))

\* distance_can_travel_before_15_percent_km
\*   = max(0, (fuel_at_start_of_step - tank_size * 0.15) * mileage)
DistanceCanTravelBefore15Percent(fuel_at_start_of_step) ==
    AtLeastNone(AmountTimes(AmountMinus(fuel_at_start_of_step, LowFuelLevel),
                            mileage, "km"))

\* search_location_for_station_km of the proactive check
ProactiveSearchLocation(distance_covered_at_start_of_step_m, fuel_at_start_of_step) ==
    AmountSmaller(AmountPlus(Kilometres(distance_covered_at_start_of_step_m),
                             DistanceCanTravelBefore15Percent(fuel_at_start_of_step)),
                  Kilometres(total_distance))

\* 2. reactive check, evaluated after the step's fuel has been subtracted
ReactiveCheck(perform_refuel_action, fuel_after_step) ==
    ~perform_refuel_action /\ AmountAtMost(fuel_after_step, LowFuelLevel)

\* 3. additional check on the next step
NextStepCheck(perform_refuel_action, i, fuel_after_step) ==
    /\ ~perform_refuel_action
    /\ i < Len(steps)
    /\ AmountAtMost(AmountMinus(fuel_after_step, FuelForDistance(steps[i + 1].distance)),
                    LowFuelLevel)

\* search_location_for_station_km of checks 2 and 3
CurrentSearchLocation(distance_after_step) ==
    AmountSmaller(Kilometres(distance_after_step), Kilometres(total_distance))

\* checks 2 and 3 for step i, which run after "current_fuel -= fuel_needed_for_step"
LaterChecks(i, fuel_after_step, distance_after_step) ==
    IF ReactiveCheck(FALSE, fuel_after_step)
    THEN [perform |-> TRUE, trigger |-> "reactive",
          search |-> CurrentSearchLocation(distance_after_step),
          level |-> fuel_after_step]
    ELSE IF NextStepCheck(FALSE, i, fuel_after_step)
    THEN [perform |-> TRUE, trigger |-> "next_step",
          search |-> CurrentSearchLocation(distance_after_step),
          level |-> fuel_after_step]
    ELSE [perform |-> FALSE, trigger |-> "none", search |-> Exactly(0, "km"),
          level |-> Exactly(0, "litres")]

\* the three checks for step i, with the fuel that the step needs
\* (fuel_at_start and covered_at_start_m are fuel_at_start_of_step and
\* distance_covered_at_start_of_step_m)
ChecksOfStep(i, fuel_at_start, covered_at_start_m, fuel_needed_for_step) ==
    IF ProactiveCheck(fuel_at_start, fuel_needed_for_step)
    THEN [perform |-> TRUE, trigger |-> "proactive",
          search |-> ProactiveSearchLocation(covered_at_start_m, fuel_at_start),
          level |-> LowFuelLevel]
    ELSE LaterChecks(i, AmountMinus(fuel_at_start, fuel_needed_for_step),
                     covered_at_start_m + steps[i].distance)

\* The outcome of the three checks for step i:
\* perform_refuel_action, search_location_for_station_km,
\* fuel_level_at_search_trigger_for_refill_calc and the check that fired.
RefuelDecision(i, fuel_at_start_of_step, distance_covered_at_start_of_step_m) ==
    ChecksOfStep(i, fuel_at_start_of_step, distance_covered_at_start_of_step_m,
                 FuelNeededForStep(steps[i].distance))

\* distance_of_this_fuel_stop_m = search_location_for_station_km * 1000
DistanceOfFuelStop(search) == AmountTimes(search, 1000, "m")

\* perform_refuel_action and (search_location_for_station_km * 1000) > last_fuel_stop_distance
AttemptRefuel(decision) ==
    decision.perform /\ AmountBelow(last_fuel_stop_distance, DistanceOfFuelStop(decision.search))

\* actual_fuel_at_pump_before_fill
ActualFuelAtPumpBeforeFill(level) == AtLeastNone(level)

\* variant of FuelToAdd: operands of the subtraction swapped, clamp lost
FuelToAddSwapped(level_before_fill) == AmountMinus(level_before_fill, FullTank)

\* fuel_to_add = max(0, tank_size - actual_fuel_at_pump_before_fill)
FuelToAdd(level_before_fill) == AtLeastNone(AmountMinus(FullTank, level_before_fill))

\* variant of RefilledFuelLevel: the fill is not added to the level
LevelBeforeFill(level_before_fill, fuel_to_add) == level_before_fill

\* refilled_fuel_level = min(level + fuel_to_add, tank_size)
RefilledFuelLevel(level_before_fill, fuel_to_add) ==
    AmountSmaller(AmountPlus(level_before_fill, fuel_to_add), FullTank)

\* fuel_to_add and refilled_fuel_level of a fill that starts from the level
FillOf(level_before_fill, fuel_to_add) ==
    [fuel_to_add |-> fuel_to_add,
     refilled    |-> RefilledFuelLevel(level_before_fill, fuel_to_add)]

FillFrom(level_before_fill) == FillOf(level_before_fill, FuelToAdd(level_before_fill))

\* the dict appended to fuel_stops for a fill
FuelStop(distance, distance_from_last, fill, price_per_liter, is_destination_stop) ==
    [distance            |-> distance,
     distance_from_last  |-> distance_from_last,
     segment_cost        |-> CostTimes(fill.fuel_to_add.exact, price_per_liter),
     segment_fuel        |-> fill.fuel_to_add.exact,
     price_per_liter     |-> price_per_liter,
     total_cost          |-> CostPlus(total_trip_fuel_cost,
                                      CostTimes(fill.fuel_to_add.exact, price_per_liter)),
     total_fuel_used     |-> total_trip_fuel_used + fill.fuel_to_add.exact,
     fuel_remaining      |-> fill.refilled.exact,
     is_destination_stop |-> is_destination_stop]

\* the dict appended to fuel_stops for an intermediate stop
IntermediateFuelStop(decision, price_per_liter_at_station) ==
    FuelStop(decision.search.exact,
             decision.search.exact - last_fuel_stop_distance.exact,
             FillFrom(ActualFuelAtPumpBeforeFill(decision.level)),
             price_per_liter_at_station, FALSE)

\* current_fuel = refilled_fuel_level
FuelAfterIntermediateStop(decision) ==
    FillFrom(ActualFuelAtPumpBeforeFill(decision.level)).refilled

\* outcomes of places_service.get_fuel_station as the caller sees them
StationOutcomes == {"station", "none", "error"}

\* variant of StationFound: only a raised error counts as a failed lookup
StationAnswered(outcome) == outcome # "error"

\* the call returned and "if fuel_station:" holds
StationFound(outcome) == outcome = "station"

\* One iteration of "for i, step in enumerate(steps)", with a station
\* collaborator that answers from outcomes and a price collaborator that
\* answers from prices.
FuelStepWith(outcomes, prices) ==
    /\ fuel_pc = "loop"
    /\ \E i \in {fuel_i} :
       \E decision \in {RefuelDecision(i, current_fuel, distance_covered_total)},
          fuel_after_step \in
              {AmountMinus(current_fuel, FuelNeededForStep(steps[i].distance))} :
           /\ distance_covered_total' = distance_covered_total + steps[i].distance
           /\ IF AttemptRefuel(decision)
              THEN \E outcome \in outcomes, price \in prices \cup {0} :
                     /\ station_calls' = Append(station_calls,
                            [distance |-> decision.search.exact, outcome |-> outcome,
                             destination |-> FALSE, price |-> price])
                     /\ IF StationFound(outcome)
                        THEN \E stop \in {IntermediateFuelStop(decision, price)} :
                                 /\ outcome = "station" => price \in prices
                                 /\ fuel_stops' = Append(fuel_stops, stop)
                                 /\ total_trip_fuel_cost' = stop.total_cost
                                 /\ total_trip_fuel_used' = stop.total_fuel_used
                                 /\ current_fuel' = FuelAfterIntermediateStop(decision)
                                 /\ last_fuel_stop_distance' =
                                        DistanceOfFuelStop(decision.search)
                        ELSE /\ price = 0
                             /\ current_fuel' = fuel_after_step
                             /\ UNCHANGED <<fuel_stops, total_trip_fuel_cost,
                                            total_trip_fuel_used, last_fuel_stop_distance>>
              ELSE /\ current_fuel' = fuel_after_step
                   /\ UNCHANGED <<fuel_stops, total_trip_fuel_cost, total_trip_fuel_used,
                                  last_fuel_stop_distance, station_calls>>
           /\ fuel_i' = i + 1
           /\ fuel_pc' = IF i = Len(steps) THEN "dest" ELSE "loop"
    /\ UNCHANGED <<appVars, inputVars, restVars, mealVars, planVars>>

\* variant of DistanceFromActualLastStop: the earlier stops are ignored
DistanceFromStartOnly == total_distance

FuelStep == FuelStepWith(StationOutcomes, PetrolPrices)

\* distance_from_actual_last_stop_m of the destination stop
DistanceFromActualLastStop ==
    IF fuel_stops # << >> THEN total_distance - Last(fuel_stops).distance
    ELSE total_distance

\* variant of DestinationFuelStop: the fill is computed from the low-fuel
\* level, as for an intermediate stop, instead of the level on arrival
DestinationFuelStopFromThreshold(price_per_liter_at_dest) ==
    FuelStop(total_distance, DistanceFromActualLastStop, FillFrom(LowFuelLevel),
             price_per_liter_at_dest, TRUE)

\* the dict appended for the mandatory destination fill, from
\* fuel_at_destination_before_final_fill = current_fuel; the try branch and
\* the except branch compute the same amounts
DestinationFuelStop(price_per_liter_at_dest) ==
    FuelStop(total_distance, DistanceFromActualLastStop, FillFrom(current_fuel),
             price_per_liter_at_dest, TRUE)

\* the get_fuel_station calls of the block after the loop: the lookup of
\* line 255 and, when that one returned no station, the lookup of line 333
\* for a nearby station, which is asked for its rating and opening status
\* only; a raised error of the first lookup leaves for the except branch
DestinationStationCalls(outcome, nearby_outcome, price) ==
    LET first == [distance |-> total_distance, outcome |-> outcome,
                  destination |-> TRUE, price |-> price]
        again == [distance |-> total_distance, outcome |-> nearby_outcome,
                  destination |-> TRUE, price |-> 0]
    IN  IF outcome = "none" THEN <<first, again>> ELSE <<first>>

\* "if steps:" block after the loop, then return fuel_stops; the station
\* collaborator answers the first lookup from outcomes and the second from
\* nearby_outcomes
FuelDestinationFillAsked(outcomes, nearby_outcomes, prices) ==
    /\ fuel_pc = "dest"
    /\ \E outcome \in outcomes, nearby_outcome \in nearby_outcomes, price \in prices :
         \E stop \in {DestinationFuelStop(price)} :
             /\ station_calls' = station_calls
                     \o DestinationStationCalls(outcome, nearby_outcome, price)
             /\ fuel_stops' = Append(fuel_stops, stop)
             /\ total_trip_fuel_cost' = stop.total_cost
             /\ total_trip_fuel_used' = stop.total_fuel_used
    /\ fuel_pc' = "done"
    /\ UNCHANGED <<fuel_i, current_fuel, distance_covered_total, last_fuel_stop_distance>>
    /\ UNCHANGED <<appVars, inputVars, restVars, mealVars, planVars>>

FuelDestinationFillWith(outcomes, prices) ==
    FuelDestinationFillAsked(outcomes, outcomes, prices)

FuelDestinationFill == FuelDestinationFillWith(StationOutcomes, PetrolPrices)

----------------------------------------------------------------------------
(* city, lodging and restaurant lookups of the rest walk and the meal walk *)

\* maps_service.get_reverse_geocode: a result that names a city, a result
\* that names none, a raised error
GeocodeAnswers == {"city", "none", "error"}
\* places_service.find_nearby_places(type='locality'): places, no places, a
\* raised error
PlacesAnswers == {"found", "none", "error"}

\* What the places provider holds around a rest location: so many hotels, all
\* of one rating (in tenths of a star), whose details can be fetched or not
\* and whose formatted_address has a part that passes the filters of lines
\* 858-869 or has none
Lodging(hotels, rating, details, city) ==
    [hotels |-> hotels, rating |-> rating, details |-> details, city |-> city]

\* the answers of places_service.find_hotels and get_place_details
LodgingAnswers ==
    {"hotels", "hotels_in_city", "hotels2", "hotels3", "hotels5", "low_rated",
     "no_details", "none", "error"}

LodgingAnswered(lodging) ==
    CASE lodging = "hotels"         -> Lodging(1, 40, TRUE, FALSE)
      [] lodging = "hotels_in_city" -> Lodging(1, 40, TRUE, TRUE)
      [] lodging = "hotels2"        -> Lodging(2, 40, TRUE, FALSE)
      [] lodging = "hotels3"        -> Lodging(3, 40, TRUE, FALSE)
      [] lodging = "hotels5"        -> Lodging(5, 40, TRUE, FALSE)
      [] lodging = "low_rated"      -> Lodging(3, 30, TRUE, FALSE)
      [] lodging = "no_details"     -> Lodging(3, 40, FALSE, FALSE)
      [] OTHER                      -> Lodging(0, 0, FALSE, FALSE)

\* len(hotels['results']) of find_hotels(min_rating=3.5): the hotels rated
\* at least min_rating (places.py:74-78); a raised error leaves the try block
FindHotels(lodging) ==
    IF lodging # "error" /\ LodgingAnswered(lodging).rating >= 35
    THEN LodgingAnswered(lodging).hotels ELSE 0

\* the collaborators of plan_schedule besides the route provider
Collaborators == {"station", "price", "lodging", "restaurant", "geocode"}

\* what a collaborator answers: working if it is up, and otherwise nothing
\* or, where the call can raise, an error
AnswersOf(name, working) ==
    IF name \in outage THEN {"none", "error"} ELSE {working}

\* self.fallback_prices['delhi']['petrol'], 96.72 rupees
FallbackPetrolPrice == 9672

\* the 'petrol' entry of what fuel_service.get_fuel_prices returns.  It
\* never raises: when the model behind it raises, answers nothing or answers
\* what cannot be parsed, it returns _get_fallback_prices(city), and that
\* finds no state for its reverse geocode of (0, 0) and returns the entry of
\* Delhi (fuel.py:82-126, 184-203)
PricesOf(working) == IF "price" \in outage THEN {FallbackPetrolPrice} ELSE working

\* city is not None after the first try block: the reverse geocode names it,
\* or it names none and the nearby search for a locality finds one; an error
\* of either lookup leaves the block
CityFound(geocode, places) ==
    geocode = "city" \/ (geocode = "none" /\ places = "found")

\* len(hotel_options): sorted_hotels is cut to three ([:3], line 842) and an
\* entry is appended for each of them whose place details are fetched
HotelOptions(lodging) ==
    IF LodgingAnswered(lodging).details THEN Min(3, FindHotels(lodging)) ELSE 0

\* variant of RestCity: the hotels' addresses are not looked at
RestCityFromLocation(geocode, places, lodging) == CityFound(geocode, places)

\* city of a rest stop: the city of the first try block or, if that is
\* still None, the first part of a fetched hotel's formatted_address that
\* passes the filters of lines 858-869
RestCity(geocode, places, lodging) ==
    \/ CityFound(geocode, places)
    \/ HotelOptions(lodging) > 0 /\ LodgingAnswered(lodging).city

\* What the places provider holds around a meal location: places, each with
\* a name, a distance from the location in km and details that make it a
\* restaurant or not (places.py:403-411)
Place(name, km, is_restaurant) ==
    [name |-> name, km |-> km, is_restaurant |-> is_restaurant]

\* the answers of places_service.find_nearby_places to the restaurant
\* searches of one meal stop
RestaurantAnswers ==
    {"found", "found1", "found2", "found5", "same_name", "far", "no_restaurant",
     "none", "error"}

PlacesAnswered(answer) ==
    CASE answer = "found"  -> <<Place("a", 1, TRUE), Place("b", 1, TRUE), Place("c", 1, TRUE)>>
      [] answer = "found1" -> <<Place("a", 1, TRUE)>>
      [] answer = "found2" -> <<Place("a", 1, TRUE), Place("b", 4, TRUE)>>
      [] answer = "found5" -> <<Place("a", 1, TRUE), Place("b", 1, TRUE), Place("c", 4, TRUE),
                                Place("d", 4, TRUE), Place("e", 8, TRUE)>>
      [] answer = "same_name" -> <<Place("a", 1, TRUE), Place("a", 1, TRUE), Place("a", 4, TRUE)>>
      [] answer = "far" -> <<Place("a", 111, TRUE), Place("b", 111, TRUE), Place("c", 111, TRUE)>>
      [] answer = "no_restaurant" ->
             <<Place("a", 1, FALSE), Place("b", 1, FALSE), Place("c", 1, FALSE)>>
      [] OTHER -> << >>

\* find_nearby_places with type 'restaurant' or 'food': a place whose details
\* do not make it a restaurant is left out (places.py:413-414)
FindNearbyRestaurants(answer) ==
    SelectSeq(PlacesAnswered(answer), LAMBDA place : place.is_restaurant)

\* the radius, in km, of the six searches of search_strategies and of the
\* final search
SearchRadiiKm == <<2, 2, 2, 5, 5, 5, 10>>

\* "Add unique places to options": the places within the radius whose name
\* is not yet among the options are appended until there are three; the
\* order in which valid_places.sort puts them does not change their number
RECURSIVE AddUniquePlaces(_, _, _)
AddUniquePlaces(options, places, radius) ==
    IF places = << >> \/ Len(options) >= 3 THEN options
    ELSE AddUniquePlaces(
             IF /\ Head(places).km <= radius
                /\ \A n \in 1..Len(options) : options[n].name # Head(places).name
             THEN Append(options, Head(places)) ELSE options,
             Tail(places), radius)

\* restaurant_options after the searches from number s on, each of them
\* answered with places; a search is made while there are fewer than three
RECURSIVE RestaurantOptions(_, _, _)
RestaurantOptions(options, places, s) ==
    IF s > Len(SearchRadiiKm) \/ Len(options) >= 3 THEN options
    ELSE RestaurantOptions(AddUniquePlaces(options, places, SearchRadiiKm[s]),
                           places, s + 1)

\* the entries of restaurant_options that are places; the list is filled up
\* to three entries with placeholders, and a raised error leaves the try
\* block with the places kept so far
RestaurantsFound(answer) ==
    IF answer = "error" THEN 0
    ELSE Len(RestaurantOptions(<< >>, FindNearbyRestaurants(answer), 1))

----------------------------------------------------------------------------
(* _calculate_rest_stops *)

\* The dates returned by the two datetime.today() calls of lines 768 and 769,
\* in days after the first one: the same day, or midnight passes in between.
SameDay == <<0, 0>>
TodayReads == {SameDay, <<0, 1>>}

\* variant of DrivingDuration: the dates of the two reads are not looked at
WindowLength(today) == driving_hours_end - driving_hours_start

\* driving_duration = (driving_end - driving_start).total_seconds(), with
\* driving_start = combine(first read, driving_hours_start) and
\* driving_end = combine(second read, driving_hours_end)
DrivingDuration(today) ==
    Combine(today[2], driving_hours_end) - Combine(today[1], driving_hours_start)

\* variant of NeedRest: the seconds driven today are not looked at
NeedRestByClock(is_last_step, current_time, seconds_driven, duration) ==
    \/ is_last_step
    \/ TimeOf(current_time) >= driving_hours_end

\* need_rest, from the clock and the seconds driven after the step
NeedRest(is_last_step, current_time, seconds_driven, duration) ==
    \/ is_last_step
    \/ TimeOf(current_time) >= driving_hours_end
    \/ seconds_driven >= duration

\* variant of NextDayStart: resumes at the first window start after the
\* arrival, which is the same calendar day for an arrival after midnight
ComingWindowStart(current_time) ==
    IF TimeOf(current_time) < driving_hours_start
    THEN Combine(DateOf(current_time), driving_hours_start)
    ELSE Combine(DateOf(current_time) + 1, driving_hours_start)

\* next_day_start = datetime.combine(current_time.date() + 1 day, driving_hours_start)
NextDayStart(current_time) == Combine(DateOf(current_time) + 1, driving_hours_start)

\* the dict built for an overnight rest (else branch)
\* variant of TotalTimeWithRest: the rest is not added to the trip's time
TotalTimeWithoutRest(time_needed, rest_duration) == time_needed

\* total_time_needed += rest_duration
TotalTimeWithRest(time_needed, rest_duration) == time_needed + rest_duration

OvernightRestStop(current_time, distance_covered, city, hotel_options) ==
    LET next_day_start == NextDayStart(current_time)
        rest_duration  == next_day_start - current_time
    IN  [time               |-> current_time,
         city               |-> city,
         hotel_options      |-> hotel_options,
         distance           |-> distance_covered,
         distance_from_last |-> distance_covered - rest_last_stop_distance,
         is_destination     |-> FALSE,
         is_overnight       |-> TRUE,
         next_day_start     |-> next_day_start,
         rest_duration      |-> rest_duration,
         total_time_needed  |-> TotalTimeWithRest(total_time_needed, rest_duration)]

\* the dict built for the last step (if branch); it has no resume fields
DestinationRestStop(current_time, distance_covered, city, hotel_options) ==
    [time               |-> current_time,
     city               |-> city,
     hotel_options      |-> hotel_options,
     distance           |-> distance_covered,
     distance_from_last |-> distance_covered - rest_last_stop_distance,
     is_destination     |-> TRUE,
     is_overnight       |-> FALSE,
     next_day_start     |-> Absent,
     rest_duration      |-> Absent,
     total_time_needed  |-> total_time_needed]

\* variant of RestDistanceCovered: the rest walk and the fuel walk keep the
\* distance covered in one place
DistanceCoveredOfFuelWalk == distance_covered_total

\* distance_covered, a local of _calculate_rest_stops (line 763)
RestDistanceCovered == rest_distance_covered

\* what the lookups of one rest stop can come to, with collaborators that
\* answer from geocodes, places and lodgings: the city and the hotels kept
RestLookups(geocodes, places, lodgings) ==
    {[city |-> RestCity(geocode, place, lodging), hotel_options |-> HotelOptions(lodging)]
        : geocode \in geocodes, place \in places, lodging \in lodgings}

\* One iteration of "for i, step in enumerate(steps)", with collaborators
\* that answer from geocodes, places and lodgings; each lookup is made in a
\* try block of its own.
\* rest_stops.append(rest_stop) is the last statement of the else branch:
\* the dict built for the last step is bound to rest_stop and never appended.
\* One step of the walk; the first one includes lines 761-777, where the
\* clock is read.
RestStepOn(todays, geocodes, places, lodgings) ==
    /\ rest_pc = "loop"
    /\ \E today \in todays, lookup \in RestLookups(geocodes, places, lodgings) :
       LET i                == rest_i
           duration         == IF i = 1 THEN DrivingDuration(today) ELSE driving_duration
           city             == lookup.city
           hotel_options    == lookup.hotel_options
           distance_covered == RestDistanceCovered + steps[i].distance
           seconds_driven   == seconds_driven_today + steps[i].duration
           current_time     == rest_current_time + steps[i].duration
           is_last_step     == i = Len(steps)
       IN  /\ driving_duration' = duration
           /\ rest_distance_covered' = distance_covered
           /\ IF NeedRest(is_last_step, current_time, seconds_driven, duration)
              THEN /\ rest_last_stop_distance' = distance_covered
                   /\ IF is_last_step
                      THEN \* rest_stop is built and dropped
                           /\ DestinationRestStop(current_time, distance_covered,
                                                  city, hotel_options).is_destination
                           /\ rest_current_time' = current_time
                           /\ seconds_driven_today' = seconds_driven
                           /\ UNCHANGED <<rest_stops, total_time_needed>>
                      ELSE LET rest_stop == OvernightRestStop(current_time, distance_covered,
                                                              city, hotel_options)
                           IN  /\ rest_stops' = Append(rest_stops, rest_stop)
                               /\ total_time_needed' = rest_stop.total_time_needed
                               /\ rest_current_time' = rest_stop.next_day_start
                               /\ seconds_driven_today' = 0
              ELSE /\ rest_current_time' = current_time
                   /\ seconds_driven_today' = seconds_driven
                   /\ UNCHANGED <<rest_stops, total_time_needed, rest_last_stop_distance>>
           /\ rest_i' = i + 1
           /\ rest_pc' = IF is_last_step THEN "done" ELSE "loop"
    /\ UNCHANGED <<appVars, inputVars, fuelVars, mealVars, planVars>>

\* the walk of a call during which midnight does not pass
RestStepWith(geocodes, places, lodgings) ==
    RestStepOn({SameDay}, geocodes, places, lodgings)

RestStep == RestStepOn(TodayReads, GeocodeAnswers, PlacesAnswers, LodgingAnswers)

----------------------------------------------------------------------------
(* _calculate_meal_stops *)

\* meal_durations
MealDuration(meal_type) == IF meal_type = "Breakfast" THEN 30 * 60 ELSE 60 * 60

\* total_days = (total_duration // (24 * 3600)) + 2
TotalDays == (total_duration \div (24 * 3600)) + 2

\* the three entries appended for one day of "for day in range(total_days)"
MealTimesOfDay(day) ==
    LET current_date == DateOf(departure_time) + day
    IN  << [time |-> Combine(current_date, breakfast_time), type |-> "Breakfast", day |-> day + 1],
           [time |-> Combine(current_date, lunch_time),     type |-> "Lunch",     day |-> day + 1],
           [time |-> Combine(current_date, dinner_time),    type |-> "Dinner",    day |-> day + 1] >>

RECURSIVE GeneratedMealTimes(_)
GeneratedMealTimes(days) ==
    IF days <= 0 THEN << >>
    ELSE GeneratedMealTimes(days - 1) \o MealTimesOfDay(days - 1)

\* list.sort is stable: x goes after every element whose key is not greater
RECURSIVE InsertByTime(_, _)
InsertByTime(sorted, x) ==
    IF sorted = << >> THEN <<x>>
    ELSE IF Last(sorted).time <= x.time THEN Append(sorted, x)
    ELSE Append(InsertByTime(SubSeq(sorted, 1, Len(sorted) - 1), x), Last(sorted))

RECURSIVE SortByTime(_)
SortByTime(s) ==
    IF s = << >> THEN << >>
    ELSE InsertByTime(SortByTime(SubSeq(s, 1, Len(s) - 1)), Last(s))

\* all_meal_times after all_meal_times.sort(key=lambda x: x['time'])
AllMealTimes == SortByTime(GeneratedMealTimes(TotalDays))

\* key=lambda x: (x['day'], x['time'])
DayTimeLeq(a, b) == a.day < b.day \/ (a.day = b.day /\ a.time <= b.time)

RECURSIVE InsertByDayTime(_, _)
InsertByDayTime(sorted, x) ==
    IF sorted = << >> THEN <<x>>
    ELSE IF DayTimeLeq(Last(sorted), x) THEN Append(sorted, x)
    ELSE Append(InsertByDayTime(SubSeq(sorted, 1, Len(sorted) - 1), x), Last(sorted))

\* meal_stops.sort(key=lambda x: (x['day'], x['time']))
RECURSIVE SortByDayTime(_)
SortByDayTime(s) ==
    IF s = << >> THEN << >>
    ELSE InsertByDayTime(SortByDayTime(SubSeq(s, 1, Len(s) - 1)), Last(s))

\* step_start_time <= meal_time <= step_end_time
MealWithinStep(meal_time, step_start_time, step_end_time) ==
    step_start_time <= meal_time /\ meal_time <= step_end_time

\* the "between steps" alternative: the previous step ends where this one
\* starts and the meal time is within 30 minutes of the step
MealBetweenSteps(i, meal_time, step_start_time, step_end_time) ==
    /\ i > 1
    /\ steps[i].contiguous
    /\ meal_time > step_start_time - 30 * 60
    /\ meal_time < step_end_time + 30 * 60

\* meal_distance = step_start_distance + (step_end_distance - step_start_distance)
\* * time_ratio, with time_ratio = seconds into the step / step_duration; the
\* source computes it in floating point, the model keeps the fraction
MealDistance(i, meal_time, step_start_time, step_start_distance) ==
    IF MealWithinStep(meal_time, step_start_time, step_start_time + steps[i].duration)
    THEN LET along == MulDiv(steps[i].distance, meal_time - step_start_time,
                             steps[i].duration)
         IN  [along EXCEPT !.whole = step_start_distance + along.whole]
    ELSE Metres(step_start_distance)

\* is_within_rest, read from self.rest_stops
IsWithinRest(meal_time) ==
    \E k \in 1..Len(self_rest_stops) :
        /\ ~self_rest_stops[k].is_destination
        /\ self_rest_stops[k].time <= meal_time
        /\ meal_time <= self_rest_stops[k].next_day_start

\* variant of MealAlreadyProcessed: the processed set is never consulted
MealNeverProcessed(meal_key, processed) == FALSE

\* meal_key in processed_meal_times
MealAlreadyProcessed(meal_key, processed) == meal_key \in processed

\* the tests of the body of "for meal_info in all_meal_times" for step i:
\* the meal time is not yet processed and falls within the step or between
\* steps
MealOfStep(i, meal_info) ==
    /\ ~MealAlreadyProcessed(<<meal_info.day, meal_info.type>>, processed_meal_times)
    /\ \/ MealWithinStep(meal_info.time, meal_current_time,
                         meal_current_time + steps[i].duration)
       \/ MealBetweenSteps(i, meal_info.time, meal_current_time,
                           meal_current_time + steps[i].duration)

\* the position in all_meal_times, from position k on, of the next entry
\* that the inner loop of step i does not pass over; 0 if there is none
RECURSIVE NextMealOfStep(_, _, _)
NextMealOfStep(i, k, all_meal_times) ==
    IF k > Len(all_meal_times) THEN 0
    ELSE IF MealOfStep(i, all_meal_times[k]) THEN k
    ELSE NextMealOfStep(i, k + 1, all_meal_times)

\* the dict appended to meal_stops
MealStopEntry(meal_info, meal_distance, city, restaurants, is_within_rest) ==
    [time               |-> meal_info.time,
     city               |-> city,
     restaurants_found  |-> restaurants,
     end_time           |-> IF is_within_rest THEN Absent
                            ELSE meal_info.time + MealDuration(meal_info.type),
     distance           |-> meal_distance,
     distance_from_last |-> LengthMinus(meal_distance, meal_last_stop_distance),
     meal_type          |-> meal_info.type,
     duration           |-> IF is_within_rest THEN Absent
                            ELSE MealDuration(meal_info.type),
     is_within_rest     |-> is_within_rest,
     day                |-> meal_info.day]

\* what the lookups of one meal stop can come to, with collaborators that
\* answer from geocodes, places and restaurants: the city and the number of
\* restaurants kept
MealLookups(geocodes, places, restaurants) ==
    {[city |-> CityFound(geocode, place), restaurants_found |-> RestaurantsFound(restaurant)]
        : geocode \in geocodes, place \in places, restaurant \in restaurants}

\* The inner loop of step i up to and including the next meal time it does
\* not pass over: the city and the restaurants of that meal stop are looked
\* up, with collaborators that answer from geocodes, places and restaurants,
\* then self.rest_stops is read and the stop is appended.
MealStopWith(geocodes, places, restaurants) ==
    /\ meal_pc = "loop"
    /\ \E k \in {NextMealOfStep(meal_i, meal_k, AllMealTimes)} :
         /\ k # 0
         /\ \E lookup \in MealLookups(geocodes, places, restaurants) :
              \E meal_info \in {AllMealTimes[k]} :
              \E stop \in {MealStopEntry(meal_info,
                                         MealDistance(meal_i, meal_info.time,
                                                      meal_current_time,
                                                      meal_distance_covered),
                                         lookup.city, lookup.restaurants_found,
                                         IsWithinRest(meal_info.time))} :
                /\ meal_stops' = Append(meal_stops, stop)
                /\ processed_meal_times' =
                       processed_meal_times \cup {<<meal_info.day, meal_info.type>>}
                /\ meal_last_stop_distance' = stop.distance
         /\ meal_k' = k + 1
    /\ UNCHANGED <<meal_pc, meal_i, meal_current_time, meal_distance_covered>>
    /\ UNCHANGED <<appVars, inputVars, fuelVars, restVars, planVars>>

MealStop == MealStopWith(GeocodeAnswers, PlacesAnswers, RestaurantAnswers)

\* The end of one iteration of "for i, step in enumerate(steps)", after the
\* inner loop has passed over what is left of all_meal_times; after the last
\* step the list is sorted and returned.
MealStep ==
    /\ meal_pc = "loop"
    /\ NextMealOfStep(meal_i, meal_k, AllMealTimes) = 0
    /\ meal_stops' = IF meal_i = Len(steps) THEN SortByDayTime(meal_stops) ELSE meal_stops
    /\ meal_current_time' = meal_current_time + steps[meal_i].duration
    /\ meal_distance_covered' = meal_distance_covered + steps[meal_i].distance
    /\ meal_i' = meal_i + 1
    /\ meal_k' = 1
    /\ meal_pc' = IF meal_i = Len(steps) THEN "done" ELSE "loop"
    /\ UNCHANGED <<processed_meal_times, meal_last_stop_distance>>
    /\ UNCHANGED <<appVars, inputVars, fuelVars, restVars, planVars>>

----------------------------------------------------------------------------
(* plan_schedule *)

\* variant of PlanAfterDirections: the answer is not tested
PlanAfterDirectionsUntested(found) == "rest"

\* "if not directions: return None"
PlanAfterDirections(found) == IF found THEN "rest" ELSE "failed"

\* maps_service.get_directions returns the route (found) or None
PlanGetDirectionsWith(answers) ==
    /\ plan_pc = "start"
    /\ \E found \in answers :
         /\ directions' = IF found THEN "route" ELSE "none"
         /\ plan_pc' = PlanAfterDirections(found)
         /\ rest_pc' = IF PlanAfterDirections(found) = "rest" THEN "loop" ELSE rest_pc
    /\ UNCHANGED <<plan_run, first_plan, other_pc, returned_rest_stops>>
    /\ UNCHANGED <<appVars, inputVars, fuelVars, mealVars, self_rest_stops, rest_i,
                   rest_current_time, seconds_driven_today, rest_distance_covered,
                   rest_last_stop_distance, total_time_needed, rest_stops,
                   driving_duration>>

PlanGetDirections == PlanGetDirectionsWith(BOOLEAN)

\* the value assigned to self.rest_stops
StoredRestStops == rest_stops

\* self.rest_stops = self._calculate_rest_stops(...), then the call of
\* _calculate_fuel_stops
PlanStoreRestStops ==
    /\ plan_pc = "rest" /\ rest_pc = "done"
    /\ self_rest_stops' = StoredRestStops
    /\ UNCHANGED <<directions, plan_run, first_plan, other_pc, returned_rest_stops>>
    /\ plan_pc' = "fuel"
    /\ fuel_pc' = "loop"
    /\ UNCHANGED <<appVars, inputVars, restVars, mealVars, fuel_i, current_fuel,
                   distance_covered_total, last_fuel_stop_distance, fuel_stops,
                   total_trip_fuel_cost, total_trip_fuel_used, station_calls>>

\* fuel_stops = ... returned, then the call of _calculate_meal_stops
PlanCallMealStops ==
    /\ plan_pc = "fuel" /\ fuel_pc = "done"
    /\ plan_pc' = "meal"
    /\ meal_pc' = "loop"
    /\ UNCHANGED <<directions, plan_run, first_plan, other_pc, returned_rest_stops>>
    /\ UNCHANGED <<appVars, inputVars, fuelVars, restVars, self_rest_stops, meal_i,
                   meal_current_time, meal_distance_covered, meal_last_stop_distance,
                   processed_meal_times, meal_stops, meal_k>>

\* return {..., 'rest_stops': self.rest_stops, ...}: the attribute is read once
\* more, and the list it holds at that moment is what the caller gets
PlanReturn ==
    /\ plan_pc = "meal" /\ meal_pc = "done"
    /\ plan_pc' = "done"
    /\ returned_rest_stops' = self_rest_stops
    /\ UNCHANGED <<directions, plan_run, first_plan, other_pc>>
    /\ UNCHANGED <<appVars, inputVars, fuelVars, restVars, mealVars, self_rest_stops>>

\* The rest walk and the fuel walk of lines 45-54 are run once more for the
\* same arguments, this time started together, after they have run one after
\* the other; what they returned and were answered is kept for comparison.
PlanWalksTogether ==
    /\ plan_pc = "fuel" /\ fuel_pc = "done" /\ plan_run = 1
    /\ first_plan' = [fuel_stops |-> fuel_stops, rest_stops |-> rest_stops,
                      meal_stops |-> << >>, station_calls |-> station_calls,
                      driving_duration |-> driving_duration]
    /\ plan_run' = 2
    /\ plan_pc' = "walks"
    /\ fuel_pc' = "loop" /\ fuel_i' = 1
    /\ current_fuel' = FullTank
    /\ distance_covered_total' = 0 /\ last_fuel_stop_distance' = Exactly(0, "m")
    /\ fuel_stops' = << >> /\ station_calls' = << >>
    /\ total_trip_fuel_cost' = NoCost /\ total_trip_fuel_used' = 0
    /\ rest_pc' = "loop" /\ rest_i' = 1
    /\ rest_current_time' = departure_time /\ seconds_driven_today' = 0
    /\ rest_distance_covered' = 0 /\ rest_last_stop_distance' = 0
    /\ total_time_needed' = total_duration /\ rest_stops' = << >>
    /\ driving_duration' = Absent
    /\ UNCHANGED <<appVars, inputVars, mealVars, self_rest_stops, directions, other_pc,
                   returned_rest_stops>>

\* both walks have returned
PlanWalksJoin ==
    /\ plan_pc = "walks" /\ rest_pc = "done" /\ fuel_pc = "done"
    /\ plan_pc' = "joined"
    /\ UNCHANGED <<appVars, inputVars, fuelVars, restVars, mealVars,
                   self_rest_stops, directions, plan_run, first_plan, other_pc,
                   returned_rest_stops>>

\* Another plan_schedule call on the same planner, made with other arguments,
\* executes its "self.rest_stops = self._calculate_rest_stops(...)" at any
\* moment: before this call has asked for the route, between two of its
\* statements, or after it has returned; calendars is what its rest walk can
\* have returned.  The rest walk binds a new list on every call, so the lists
\* themselves are not shared, only the attribute.
OtherPlanStoresRestStops(calendars) ==
    /\ other_pc = "running"
    /\ \E calendar \in calendars : self_rest_stops' = calendar
    /\ other_pc' = "stored"
    /\ UNCHANGED <<appVars, inputVars, fuelVars, restVars, mealVars,
                   plan_pc, directions, plan_run, first_plan, returned_rest_stops>>

----------------------------------------------------------------------------
(* TollService (src/utils/tolls.py) *)

\* ways in which the request of get_tollguru_tolls fails: requests.post raises,
\* status 403, raise_for_status raises, response.json() raises ValueError
TollFailures == {"network_error", "http_403", "http_error", "invalid_response"}

\* no request is made
NotCalled == [kind |-> "not_called", tolls |-> << >>]

\* cost = prices['tag'] if prices['tag'] > 0 else prices['cash']
TollBoothCost(toll) == IF toll.tagCost > 0 THEN toll.tagCost ELSE toll.cashCost

\* the 'cost' of every entry of tolls
TollBoothCosts(tolls) == [k \in 1..Len(tolls) |-> TollBoothCost(tolls[k])]

RECURSIVE SumCosts(_)
SumCosts(costs) ==
    IF costs = << >> THEN 0
    ELSE SumCosts(SubSeq(costs, 1, Len(costs) - 1)) + Last(costs)

\* get_tollguru_tolls returns (tolls, total_cost); every failure is caught
\* inside it and answered with ([], 0), as is an answer without routes
GetTollguruTolls(response) ==
    IF response.kind \in TollFailures \/ response.kind = "no_routes"
    THEN [tolls |-> << >>, total_cost |-> 0]
    ELSE [tolls |-> TollBoothCosts(response.tolls),
          total_cost |-> SumCosts(TollBoothCosts(response.tolls))]

\* calculate_toll_cost; its except branch is not reached, get_tollguru_tolls
\* does not raise
CalculateTollCost(response) ==
    IF ~api_key
    THEN [total_toll |-> 0, toll_booths |-> 0, is_estimate |-> TRUE,
          toll_booth_details |-> << >>]
    ELSE LET result == GetTollguruTolls(response)
         IN  [total_toll |-> result.total_cost, toll_booths |-> Len(result.tolls),
              is_estimate |-> FALSE, toll_booth_details |-> result.tolls]

\* the answers of the toll provider
TollResponses ==
    {[kind |-> k, tolls |-> << >>] : k \in TollFailures \cup {"no_routes"}}
        \cup {[kind |-> "routes", tolls |-> t]
                 : t \in SeqsUpTo([cashCost : TollCashCosts, tagCost : TollTagCosts],
                                  MaxBooths)}

----------------------------------------------------------------------------
(* the plan flow of app.py after plan_schedule *)

\* "if not schedule or 'fuel_stops' not in schedule: st.stop()"
AppCheckSchedule ==
    /\ app_pc = "plan"
    /\ plan_pc \in {"done", "failed"}
    /\ app_pc' = IF plan_pc = "done" THEN "fuel" ELSE "stopped"
    /\ UNCHANGED <<inputVars, fuelVars, restVars, mealVars, planVars,
                   vehicle_type, api_key, toll_response, fuel_cost, toll_cost,
                   total_cost>>

\* variant of SumSegmentCosts: the destination fill is left out
RECURSIVE SumIntermediateSegmentCosts(_)
SumIntermediateSegmentCosts(stops) ==
    IF stops = << >> THEN NoCost
    ELSE CostPlus(SumIntermediateSegmentCosts(SubSeq(stops, 1, Len(stops) - 1)),
                  IF Last(stops).is_destination_stop THEN NoCost
                  ELSE Last(stops).segment_cost)

\* "for stop in actual_fuel_stops_from_schedule:
\*      total_cost_from_stops += stop.get('segment_cost', 0)"
RECURSIVE SumSegmentCosts(_)
SumSegmentCosts(stops) ==
    IF stops = << >> THEN NoCost
    ELSE CostPlus(SumSegmentCosts(SubSeq(stops, 1, Len(stops) - 1)),
                  Last(stops).segment_cost)

\* fuel_cost = fuel_service.calculate_fuel_cost(...,
\* actual_fuel_stops_from_schedule=schedule['fuel_stops']); the list holds at
\* least the destination fill, so the estimate branch for an empty list is
\* not taken and the dict returned is not empty
AppCalculateFuelCost ==
    /\ app_pc = "fuel"
    /\ fuel_stops # << >>
    /\ fuel_cost' = SumSegmentCosts(fuel_stops)
    /\ app_pc' = "toll"
    /\ UNCHANGED <<inputVars, fuelVars, restVars, mealVars, planVars,
                   vehicle_type, api_key, toll_response, toll_cost, total_cost>>

\* toll_cost = toll_service.calculate_toll_cost(start_point, end_point, vehicle_type)
AppCalculateTollCostWith(responses) ==
    /\ app_pc = "toll"
    /\ \E response \in responses :
         /\ toll_response' = IF api_key THEN response ELSE NotCalled
         /\ toll_cost' = CalculateTollCost(response)
    /\ app_pc' = "total"
    /\ UNCHANGED <<inputVars, fuelVars, restVars, mealVars, planVars,
                   vehicle_type, api_key, fuel_cost, total_cost>>

AppCalculateTollCost == AppCalculateTollCostWith(TollResponses)

\* rupees in the unit of the fuel costs
InCostUnits(rupees) == CostTimes(1000 * mileage, 100 * rupees)

\* total_cost = fuel_cost['fuel_cost'] + (toll_cost['total_toll'] if toll_cost else 0)
AppTotalCost ==
    /\ app_pc = "total"
    /\ total_cost' = CostPlus(fuel_cost, InCostUnits(toll_cost.total_toll))
    /\ app_pc' = "shown"
    /\ UNCHANGED <<inputVars, fuelVars, restVars, mealVars, planVars,
                   vehicle_type, api_key, toll_response, fuel_cost, toll_cost>>

----------------------------------------------------------------------------
(* Properties of the fuel-stop sequence (FuelSpec) *)

FuelReturned == fuel_pc = "done"

DestinationStops == {k \in 1..Len(fuel_stops) : fuel_stops[k].is_destination_stop}

AllStationLookupsSucceeded ==
    \A k \in 1..Len(station_calls) : station_calls[k].outcome = "station"

SomeStationLookupFailed ==
    \E k \in 1..Len(station_calls) :
        ~station_calls[k].destination /\ station_calls[k].outcome # "station"

\* cumulative distance of the stop before stop k, 0 before the first
PreviousStopDistance(k) == IF k = 1 THEN 0 ELSE fuel_stops[k - 1].distance

RECURSIVE SumDistanceFromLast(_, _)
SumDistanceFromLast(from, to) ==
    IF to < from THEN 0
    ELSE SumDistanceFromLast(from, to - 1) + fuel_stops[to].distance_from_last

\* C1: the returned fuel-stop sequence holds exactly one destination fill; it
\* is the last event, lies at the total route distance and adds tank capacity
\* minus the level left after the last segment, whatever the lookups did.
C1_OneDestinationFill ==
    FuelReturned =>
        /\ Cardinality(DestinationStops) = 1
        /\ Last(fuel_stops).is_destination_stop
        /\ Last(fuel_stops).distance = total_distance
        /\ Last(fuel_stops).segment_fuel = TankFuel - current_fuel.exact

\* the destination fill fired although the threshold was never crossed and
\* the destination station lookup failed
C1_Witness ==
    /\ FuelReturned
    /\ Len(fuel_stops) = 1
    /\ AmountBelow(LowFuelLevel, current_fuel)
    /\ Last(fuel_stops).segment_fuel > 0
    /\ Last(station_calls).outcome # "station"

\* C2: when every station lookup succeeds, the distance from the start to the
\* first stop and between consecutive stops (destination fill included) never
\* exceeds the range of a full tank, tank_size * mileage.
C2_NeverBeyondFullTankRange ==
    (FuelReturned /\ AllStationLookupsSucceeded) =>
        \A k \in 1..Len(fuel_stops) :
            fuel_stops[k].distance - PreviousStopDistance(k) <= tank_size * mileage * 1000

\* C3: an intermediate stop adds tank capacity minus the level the simulation
\* has at the stop's position: the level at the start of the segment minus the
\* fuel needed to reach the stop's cumulative distance.
C3_LitersAddedFromLevelAtStop ==
    [][(fuel_pc = "loop" /\ Len(fuel_stops') = Len(fuel_stops) + 1) =>
          Last(fuel_stops').segment_fuel =
              TankFuel - (current_fuel.exact
                            - (Last(fuel_stops').distance - distance_covered_total))]_vars

\* C4: no intermediate stop adds a negative amount or leaves the tank above
\* its capacity.
C4_IntermediateFillWithinTank ==
    \A k \in 1..Len(fuel_stops) :
        ~fuel_stops[k].is_destination_stop =>
            /\ fuel_stops[k].segment_fuel >= 0
            /\ fuel_stops[k].fuel_remaining <= TankFuel

\* an intermediate stop was emitted after an earlier station lookup failed
C4_Witness ==
    /\ SomeStationLookupFailed
    /\ \E k \in 1..Len(fuel_stops) :
          /\ ~fuel_stops[k].is_destination_stop
          /\ \E c \in 1..Len(station_calls) :
                /\ station_calls[c].outcome # "station"
                /\ station_calls[c].distance < fuel_stops[k].distance

\* C5 as stated: every stop lies strictly beyond the previous one, and
\* distance_from_last is the difference of the cumulative distances.
C5_StrictlyIncreasingDistances ==
    FuelReturned =>
        \A k \in 1..Len(fuel_stops) :
            /\ fuel_stops[k].distance > PreviousStopDistance(k)
            /\ fuel_stops[k].distance_from_last =
                   fuel_stops[k].distance - PreviousStopDistance(k)

\* C5 (amended): cumulative distances never decrease and increase strictly
\* between intermediate stops; only the destination fill can lie at the
\* distance of the stop before it.  distance_from_last is the difference of
\* the cumulative distances, so the values of stops 2..k sum to stop k's
\* cumulative distance minus the first stop's.
C5_NonDecreasingDistances ==
    FuelReturned =>
        \A k \in 1..Len(fuel_stops) :
            /\ fuel_stops[k].distance >= PreviousStopDistance(k)
            /\ ~fuel_stops[k].is_destination_stop =>
                   fuel_stops[k].distance > PreviousStopDistance(k)
            /\ fuel_stops[k].distance_from_last =
                   fuel_stops[k].distance - PreviousStopDistance(k)
            /\ SumDistanceFromLast(2, k) = fuel_stops[k].distance - fuel_stops[1].distance

\* two intermediate stops and the destination fill were returned
C5_Witness ==
    /\ FuelReturned
    /\ Len(fuel_stops) >= 3
    /\ Last(fuel_stops).distance_from_last > 0

\* C16: when the station lookup for a marked search point returns nothing or
\* raises, no fuel stop is recorded, the totals and the last-stop marker stay
\* as they are and the tank keeps the level the step leaves it with; the walk
\* goes on to the next step, and once it has returned every step has been
\* walked and the destination fill is the last stop.
C16_LookupFailureIsSkipped ==
    /\ [][(/\ fuel_pc = "loop"
            /\ Len(station_calls') = Len(station_calls) + 1
            /\ Last(station_calls').outcome # "station")
             => /\ fuel_stops' = fuel_stops
                /\ last_fuel_stop_distance' = last_fuel_stop_distance
                /\ total_trip_fuel_cost' = total_trip_fuel_cost
                /\ total_trip_fuel_used' = total_trip_fuel_used
                /\ current_fuel' = AmountMinus(current_fuel,
                                                FuelNeededForStep(steps[fuel_i].distance))
                /\ fuel_i' = fuel_i + 1
                /\ fuel_pc' = IF fuel_i = Len(steps) THEN "dest" ELSE "loop"]_vars
    /\ [](FuelReturned =>
             /\ fuel_i = Len(steps) + 1
             /\ distance_covered_total = SumDistance(steps, Len(steps))
             /\ fuel_stops # << >>
             /\ Last(fuel_stops).is_destination_stop)

\* the walk returned after one lookup raised and another found nothing, and a
\* later lookup found a station
C16_Witness ==
    /\ FuelReturned
    /\ \E a, b, c \in 1..Len(station_calls) :
          /\ a < c /\ b < c
          /\ station_calls[a].outcome = "error"
          /\ station_calls[b].outcome = "none"
          /\ station_calls[c].outcome = "station" /\ ~station_calls[c].destination

IntermediateStops == {k \in 1..Len(fuel_stops) : ~fuel_stops[k].is_destination_stop}

\* C12: on the 500 km trip with 20 km/l and a 40 l tank, however it is divided
\* into steps, no station is looked up before the destination and the only
\* fuel stop returned is the destination fill.
C12_NoIntermediateRefuel ==
    /\ \A k \in 1..Len(station_calls) : station_calls[k].destination
    /\ IntermediateStops = {}
    /\ FuelReturned => Len(fuel_stops) = 1 /\ fuel_stops[1].is_destination_stop

\* the 500 km trip in four or more steps was simulated to its end and the
\* destination fill added the 25 l that were used
C12_Witness ==
    /\ FuelReturned
    /\ total_distance = 500 * 1000 /\ tank_size = 40 /\ mileage = 20
    /\ Len(steps) >= 4
    /\ Len(fuel_stops) = 1
    /\ fuel_stops[1].segment_fuel = 25 * mileage * 1000

\* C13 as stated: on the 1000 km trip with 15 km/l and a 40 l tank, with every
\* station lookup succeeding and however the trip is divided into steps,
\* exactly one intermediate stop is returned, within 10 km of 510 km, and
\* then the destination fill.
C13_OneIntermediateNear510 ==
    (FuelReturned /\ AllStationLookupsSucceeded) =>
        /\ Len(fuel_stops) = 2
        /\ ~fuel_stops[1].is_destination_stop
        /\ fuel_stops[1].distance >= 500 * 1000
        /\ fuel_stops[1].distance <= 520 * 1000
        /\ fuel_stops[2].is_destination_stop

\* C13 (amended): with every station lookup succeeding the 1000 km trip
\* returns one or two intermediate stops and then the destination fill.  The
\* first stop lies at 510 km when the proactive check marks it, and otherwise
\* at the end of a step before 510 km whose following step reaches 510 km or
\* beyond (next-step check).  A trip of one single step has exactly one
\* intermediate stop, at 510 km.
C13_FirstStopAtOrBefore510 ==
    (FuelReturned /\ AllStationLookupsSucceeded) =>
        /\ Cardinality(IntermediateStops) \in {1, 2}
        /\ IntermediateStops = 1..(Len(fuel_stops) - 1)
        /\ Last(fuel_stops).is_destination_stop
        /\ \/ fuel_stops[1].distance = 510 * 1000
           \/ \E i \in 1..(Len(steps) - 1) :
                 /\ SumDistance(steps, i) = fuel_stops[1].distance
                 /\ SumDistance(steps, i) < 510 * 1000
                 /\ SumDistance(steps, i + 1) >= 510 * 1000
        /\ Len(steps) = 1 =>
               Len(fuel_stops) = 2 /\ fuel_stops[1].distance = 510 * 1000

\* the 1000 km trip returned two intermediate stops, the first one marked by
\* the next-step check at the end of a step
C13_Witness ==
    /\ FuelReturned /\ AllStationLookupsSucceeded
    /\ total_distance = 1000 * 1000 /\ tank_size = 40 /\ mileage = 15
    /\ Cardinality(IntermediateStops) = 2
    /\ fuel_stops[1].distance < 510 * 1000

----------------------------------------------------------------------------
(* Properties of the rest-stop sequence (RestSpec, ScenarioSpec) *)

RestReturned == rest_pc = "done"

\* the clock time lies outside [driving_hours_start, driving_hours_end)
OutsideDrivingWindow(t) ==
    TimeOf(t) >= driving_hours_end \/ TimeOf(t) < driving_hours_start

\* C6: the returned rest-stop sequence ends with exactly one terminal event:
\* is_destination is set, its distance is the sum of the step distances, it
\* has no resume time and no rest duration, and it carries the total trip
\* duration including rests.
C6_TerminalRestStop ==
    RestReturned =>
        /\ rest_stops # << >>
        /\ Cardinality({k \in 1..Len(rest_stops) : rest_stops[k].is_destination}) = 1
        /\ Last(rest_stops).is_destination
        /\ Last(rest_stops).distance = SumDistance(steps, Len(steps))
        /\ Last(rest_stops).next_day_start = Absent
        /\ Last(rest_stops).rest_duration = Absent
        /\ Last(rest_stops).total_time_needed = rest_current_time - departure_time

\* C7: departure 06:00, window 06:00-19:00, 20 hours of driving in short
\* segments: exactly two rest stops are returned, one overnight rest and then
\* the terminal event.
C7_TwoRestStops ==
    RestReturned =>
        /\ Len(rest_stops) = 2
        /\ rest_stops[1].is_overnight /\ ~rest_stops[1].is_destination
        /\ rest_stops[2].is_destination

\* C8: whenever a step that is not the last ends at a clock time outside
\* [driving_hours_start, driving_hours_end), an overnight rest is emitted
\* before the next step is driven.
C8_RestWhenOutsideWindow ==
    [][(/\ rest_pc = "loop"
        /\ rest_i < Len(steps)
        /\ OutsideDrivingWindow(rest_current_time + steps[rest_i].duration))
         => Len(rest_stops') = Len(rest_stops) + 1]_vars

\* C9: every overnight rest resumes at driving_hours_start on the calendar
\* day after the arrival date, also for an arrival after midnight.
C9_ResumeNextDayAtWindowStart ==
    \A k \in 1..Len(rest_stops) :
        ~rest_stops[k].is_destination =>
            /\ TimeOf(rest_stops[k].next_day_start) = driving_hours_start
            /\ DateOf(rest_stops[k].next_day_start) = DateOf(rest_stops[k].time) + 1

\* an overnight rest whose arrival is after midnight, before the window opens
C9_Witness ==
    \E k \in 1..Len(rest_stops) :
        /\ ~rest_stops[k].is_destination
        /\ TimeOf(rest_stops[k].time) < driving_hours_start
        /\ DateOf(rest_stops[k].time) > DateOf(departure_time)

\* the clock and the seconds driven today once the step the rest walk is at
\* has been driven
ClockAfterStep == rest_current_time + steps[rest_i].duration
DrivenAfterStep == seconds_driven_today + steps[rest_i].duration

\* the clock after the step is at or past the end of the driving window, or
\* the seconds driven today fill the length of the window
RestTriggered ==
    \/ TimeOf(ClockAfterStep) >= driving_hours_end
    \/ DrivenAfterStep >= driving_hours_end - driving_hours_start

\* C19: after a step that is not the last, an overnight rest is emitted
\* exactly when the clock's time of day is at or past driving_hours_end or
\* the seconds driven today have reached the length of the driving window;
\* the next step then starts with seconds_driven_today = 0 at the rest's
\* next_day_start, and otherwise with the clock and the seconds driven as
\* they are after the step.
C19_RestIffTriggered ==
    [][(rest_pc = "loop" /\ rest_i < Len(steps)) =>
          /\ RestTriggered <=> Len(rest_stops') = Len(rest_stops) + 1
          /\ RestTriggered =>
                 /\ SubSeq(rest_stops', 1, Len(rest_stops)) = rest_stops
                 /\ Last(rest_stops').is_overnight
                 /\ Last(rest_stops').time = ClockAfterStep
                 /\ seconds_driven_today' = 0
                 /\ rest_current_time' = Last(rest_stops').next_day_start
          /\ ~RestTriggered =>
                 /\ rest_stops' = rest_stops
                 /\ seconds_driven_today' = DrivenAfterStep
                 /\ rest_current_time' = ClockAfterStep]_vars

\* C19 for the calls that read the same date twice at lines 768-769: the
\* driving_duration they compute is the length of the driving window.
C19_RestIffTriggeredWithinOneDay ==
    [][(/\ rest_pc = "loop" /\ rest_i < Len(steps)
        /\ driving_duration' = driving_hours_end - driving_hours_start) =>
          /\ RestTriggered <=> Len(rest_stops') = Len(rest_stops) + 1
          /\ RestTriggered =>
                 /\ seconds_driven_today' = 0
                 /\ rest_current_time' = Last(rest_stops').next_day_start
          /\ ~RestTriggered =>
                 /\ rest_stops' = rest_stops
                 /\ seconds_driven_today' = DrivenAfterStep
                 /\ rest_current_time' = ClockAfterStep]_vars

\* the third step is about to start: the first one ended without a rest and
\* the second one with a rest that only the seconds driven called for
C19_Witness ==
    /\ rest_pc = "loop" /\ rest_i = 3
    /\ Len(rest_stops) = 1
    /\ rest_stops[1].time > departure_time + steps[1].duration
    /\ TimeOf(rest_stops[1].time) < driving_hours_end
    /\ seconds_driven_today = 0
    /\ rest_current_time = rest_stops[1].next_day_start

\* the rest_duration of the first k rest stops
RECURSIVE RestDurationsUpTo(_)
RestDurationsUpTo(k) ==
    IF k = 0 THEN 0 ELSE RestDurationsUpTo(k - 1) + rest_stops[k].rest_duration

\* C20 as stated: rest_duration is next_day_start minus the arrival time, and
\* total_time_needed is the time driven up to the rest plus the rests up to
\* and including it, which is next_day_start minus the departure time.
C20_CumulativeIsElapsedTime ==
    \A k \in 1..Len(rest_stops) :
        ~rest_stops[k].is_destination =>
            /\ rest_stops[k].rest_duration
                   = rest_stops[k].next_day_start - rest_stops[k].time
            /\ rest_stops[k].total_time_needed
                   = rest_stops[k].next_day_start - departure_time

\* C20, amended: rest_duration is next_day_start minus the arrival time, and
\* total_time_needed is the driving time of the whole route plus the rests up
\* to and including this one.
C20_CumulativeIsRouteTimePlusRests ==
    \A k \in 1..Len(rest_stops) :
        ~rest_stops[k].is_destination =>
            /\ rest_stops[k].rest_duration
                   = rest_stops[k].next_day_start - rest_stops[k].time
            /\ rest_stops[k].total_time_needed
                   = total_duration + RestDurationsUpTo(k)

\* two overnight rests, the second one after a day of driving
C20_Witness ==
    /\ Len(rest_stops) >= 2
    /\ ~rest_stops[2].is_destination
    /\ rest_stops[2].rest_duration > 0
    /\ rest_stops[2].total_time_needed > rest_stops[1].total_time_needed

\* C29: when the step durations sum to the route's driving time, the
\* total_time_needed of the last rest stop returned is the time at which the
\* last step ends minus the departure time, that is the driving time plus
\* every overnight rest counted once.
C29_LastTotalIsArrivalMinusDeparture ==
    (/\ rest_pc = "done"
     /\ rest_stops # << >>
     /\ total_duration = SumDuration(steps, Len(steps))) =>
        /\ Last(rest_stops).total_time_needed = rest_current_time - departure_time
        /\ Last(rest_stops).total_time_needed
               = total_duration + RestDurationsUpTo(Len(rest_stops))

\* the walk has returned two overnight rests and the last step was driven
\* after the second one
C29_Witness ==
    /\ rest_pc = "done"
    /\ Len(rest_stops) = 2
    /\ total_duration = SumDuration(steps, Len(steps))
    /\ rest_current_time > Last(rest_stops).next_day_start
    /\ Last(rest_stops).total_time_needed > total_duration + rest_stops[1].rest_duration

----------------------------------------------------------------------------
(* Properties of the meal-stop sequence (MealSpec) *)

\* the time at which the meal walk starts step i
MealStepStart(i) == departure_time + SumDuration(steps, i - 1)

\* the meal walk's test of step i accepts the target time
MealMatchesStep(i, meal_time) ==
    \/ MealWithinStep(meal_time, MealStepStart(i), MealStepStart(i) + steps[i].duration)
    \/ MealBetweenSteps(i, meal_time, MealStepStart(i), MealStepStart(i) + steps[i].duration)

\* C10: there is at most one meal stop per (day, meal kind) pair.
C10_OneMealPerDayAndKind ==
    \A a, b \in 1..Len(meal_stops) :
        (meal_stops[a].day = meal_stops[b].day
            /\ meal_stops[a].meal_type = meal_stops[b].meal_type) => a = b

\* a returned meal stop whose target time is accepted by three consecutive
\* steps, one of them only through the 30-minute tolerance
C10_Witness ==
    /\ meal_pc = "done"
    /\ \E a \in 1..Len(meal_stops), i \in 1..Len(steps) :
          /\ i + 2 <= Len(steps)
          /\ \A j \in {i, i + 1, i + 2} : MealMatchesStep(j, meal_stops[a].time)
          /\ \E j \in {i, i + 1, i + 2} :
                ~MealWithinStep(meal_stops[a].time, MealStepStart(j),
                                MealStepStart(j) + steps[j].duration)

\* the target time lies in [arrival, resume) of a returned overnight rest
InHalfOpenRest(meal_time) ==
    \E k \in 1..Len(self_rest_stops) :
        /\ ~self_rest_stops[k].is_destination
        /\ self_rest_stops[k].time <= meal_time
        /\ meal_time < self_rest_stops[k].next_day_start

\* C11: a meal stop is marked is_within_rest exactly when its target time t
\* satisfies arrival <= t < resume for some overnight rest (a target at the
\* resume time is not suppressed); a suppressed stop has no duration, any
\* other lasts 30 minutes (breakfast) or 60 minutes (lunch, dinner).
C11_HalfOpenSuppression ==
    \A a \in 1..Len(meal_stops) :
        /\ meal_stops[a].is_within_rest <=> InHalfOpenRest(meal_stops[a].time)
        /\ meal_stops[a].is_within_rest => meal_stops[a].duration = Absent
        /\ ~meal_stops[a].is_within_rest =>
               meal_stops[a].duration =
                   (IF meal_stops[a].meal_type = "Breakfast" THEN 30 * 60 ELSE 60 * 60)

\* the calendar days, counted from 1 on the departure date, for which a
\* breakfast, a lunch and a dinner target are generated
TargetDays == {AllMealTimes[k].day : k \in 1..Len(AllMealTimes)}

\* ceil(total_duration / 24h)
DurationInDaysRoundedUp == (total_duration + 24 * Hour - 1) \div (24 * Hour)

\* C21: the meal walk generates a breakfast, a lunch and a dinner target for
\* exactly ceil(total_duration / 24h) + 2 consecutive calendar days from the
\* departure date on, whatever the duration.
C21_TargetsForCeilPlusTwoDays ==
    meal_pc = "loop" =>
        /\ TargetDays = 1..(DurationInDaysRoundedUp + 2)
        /\ Len(AllMealTimes) = 3 * (DurationInDaysRoundedUp + 2)
        /\ \A k \in 1..Len(AllMealTimes) :
               DateOf(AllMealTimes[k].time)
                   = DateOf(departure_time) + AllMealTimes[k].day - 1

\* meal_time lies in an overnight rest of the calendar this call's rest walk
\* returned
InOwnRest(meal_time) ==
    \E k \in 1..Len(rest_stops) :
        /\ ~rest_stops[k].is_destination
        /\ rest_stops[k].time <= meal_time
        /\ meal_time <= rest_stops[k].next_day_start

\* C22: while another plan_schedule call runs on the same planner, the
\* calendar this call's meal walk reads for the suppression check is the one
\* this call's rest walk returned, every meal's is_within_rest is decided by
\* that calendar, and the rest list returned is that calendar.
C22_OwnRestCalendar ==
    /\ meal_pc = "loop" => self_rest_stops = rest_stops
    /\ \A k \in 1..Len(meal_stops) :
           meal_stops[k].is_within_rest <=> InOwnRest(meal_stops[k].time)
    /\ plan_pc = "done" => returned_rest_stops = rest_stops

\* C28: in the returned meal sequence, which is in (day, time) order, the
\* cumulative distance never decreases from one meal to the next and no
\* distance_from_last is negative, also for meals matched through the
\* 30-minute window around a step.
C28_MealDistancesNonDecreasing ==
    meal_pc = "done" =>
        /\ \A k \in 1..(Len(meal_stops) - 1) :
               LengthAtMost(meal_stops[k].distance, meal_stops[k + 1].distance)
        /\ \A k \in 1..Len(meal_stops) :
               LengthAtMost(Metres(0), meal_stops[k].distance_from_last)

\* one iteration of the rest walk's loop, as far as its clock goes
RestWalkAfterStep(n, before) ==
    IF /\ n < Len(steps)
       /\ NeedRest(FALSE, before.current_time + steps[n].duration,
                   before.seconds_driven_today + steps[n].duration, driving_duration)
    THEN [current_time |-> NextDayStart(before.current_time + steps[n].duration),
          seconds_driven_today |-> 0]
    ELSE [current_time |-> before.current_time + steps[n].duration,
          seconds_driven_today |-> before.seconds_driven_today + steps[n].duration]

\* current_time and seconds_driven_today of the rest walk after n iterations
\* of its loop: each step adds its duration to both, and an iteration that
\* takes an overnight rest moves the clock to next_day_start and sets the
\* seconds driven to 0 (lines 780-783 and 932-935); the last step takes none
RECURSIVE RestWalkAfterSteps(_)
RestWalkAfterSteps(n) ==
    IF n = 0 THEN [current_time |-> departure_time, seconds_driven_today |-> 0]
    ELSE RestWalkAfterStep(n, RestWalkAfterSteps(n - 1))

\* the time at which the rest walk starts driving step i
RestWalkStartOfStep(i) == RestWalkAfterSteps(i - 1).current_time

\* C27: the meal walk and the rest walk agree on when each step is driven:
\* the start time the meal walk uses for a step is the time at which the
\* rest walk starts it (the resume time of the overnight rest before it, if
\* any), and the two walks end at the same arrival time.
C27_WalksAgreeOnStepTimes ==
    /\ (meal_pc = "loop" /\ rest_pc = "done") =>
           meal_current_time = RestWalkStartOfStep(meal_i)
    /\ (meal_pc = "done" /\ rest_pc = "done") =>
           meal_current_time = rest_current_time

----------------------------------------------------------------------------
(* Properties of the rest walk and the fuel walk run together (InterleavedSpec) *)

\* s is made of the first elements of t
IsPrefix(s, t) == Len(s) <= Len(t) /\ s = SubSeq(t, 1, Len(s))

\* C23: when the rest walk and the fuel walk run with their steps
\* interleaved in any way, each builds the sequence it built when the two
\* ran one after the other, event by event, and the route is not changed.
C23_WalksIndependent ==
    /\ [](plan_pc \in {"walks", "joined"} =>
             /\ IsPrefix(fuel_stops, first_plan.fuel_stops)
             /\ IsPrefix(rest_stops, first_plan.rest_stops)
             /\ IsPrefix(station_calls, first_plan.station_calls))
    /\ [](plan_pc = "joined" =>
             /\ fuel_stops = first_plan.fuel_stops
             /\ rest_stops = first_plan.rest_stops)
    /\ [][steps' = steps /\ total_distance' = total_distance
            /\ total_duration' = total_duration]_vars

\* both walks are in the middle of the route, the fuel walk ahead of the
\* rest walk, and each has produced an event
C23_Witness ==
    /\ plan_pc = "walks"
    /\ rest_pc = "loop" /\ fuel_pc = "loop"
    /\ 1 < rest_i /\ rest_i < fuel_i
    /\ rest_stops # << >> /\ fuel_stops # << >>

----------------------------------------------------------------------------
(* Properties of the toll result (TollSpec) *)

\* the toll provider call failed: no key to call it with, or the request
\* ended in a network error, an HTTP error or an invalid response
TollProviderFailed ==
    toll_response = NotCalled \/ toll_response.kind \in TollFailures

\* C14: when the toll provider call fails, the toll result has is_estimate
\* set and carries a cost that is nonzero for a Car and zero for a Bike.
C14_EstimateOnProviderFailure ==
    (app_pc = "total" /\ TollProviderFailed) =>
        /\ toll_cost.is_estimate
        /\ vehicle_type = "Car" => toll_cost.total_toll > 0
        /\ vehicle_type = "Bike" => toll_cost.total_toll = 0

----------------------------------------------------------------------------
(* Properties of repeated plan_schedule calls (RerunSpec) *)

\* the second call has returned what the first call returned
SecondPlanIsFirstPlan ==
    /\ fuel_stops = first_plan.fuel_stops
    /\ returned_rest_stops = first_plan.rest_stops
    /\ meal_stops = first_plan.meal_stops
    /\ station_calls = first_plan.station_calls

\* C15: a second plan_schedule call with the same arguments and the same
\* collaborator answers returns the same fuel, rest and meal stops as the
\* first, and nothing the planner held before a call reaches its result: the
\* meal walk reads the rest stops computed by its own call.
C15_RerunIdentical ==
    /\ meal_pc # "idle" => self_rest_stops = rest_stops
    /\ (plan_run = 2 /\ plan_pc = "done") => SecondPlanIsFirstPlan

\* C15 for two calls whose rest walks computed the same driving_duration from
\* their two reads of the clock: the same on both sides of midnight, or
\* midnight between the two reads of both
C15_RerunIdenticalOnSameClock ==
    /\ meal_pc # "idle" => self_rest_stops = rest_stops
    /\ (plan_run = 2 /\ plan_pc = "done"
            /\ driving_duration = first_plan.driving_duration) => SecondPlanIsFirstPlan

\* the second call returned after a rest walk that read the clock as the
\* first one did, on a planner that held another trip's rest calendar before
\* the first call; the trip has an overnight rest of its own, a meal stop
\* outside it and an intermediate fuel stop
C15_SameClockReached ==
    /\ plan_run = 2 /\ plan_pc = "done"
    /\ driving_duration = first_plan.driving_duration
    /\ first_plan.rest_stops # << >>
    /\ first_plan.rest_stops[1].time # 19 * Hour
    /\ \E a \in 1..Len(meal_stops) : ~meal_stops[a].is_within_rest
    /\ Len(fuel_stops) >= 2

----------------------------------------------------------------------------
(* Properties of a whole plan_schedule call (Spec) *)

\* the event lists are absent when plan_schedule returns None
NothingProduced ==
    /\ rest_pc = "idle" /\ fuel_pc = "idle" /\ meal_pc = "idle"
    /\ rest_stops = << >> /\ fuel_stops = << >> /\ meal_stops = << >>
    /\ station_calls = << >>

\* the call is where one of its statements can run: the walk of the current
\* phase is inside its loop over the steps or has returned, and the next
\* statement of the rest walk and of the fuel walk runs on every answer of
\* the collaborators it asks (the meal walk asks once a meal is decided, and
\* otherwise ends the step)
PlanCanProceed ==
    /\ plan_pc = "rest" =>
           \/ /\ rest_pc = "loop" /\ rest_i \in 1..Len(steps)
              /\ \A geocode \in GeocodeAnswers, place \in PlacesAnswers,
                    lodging \in LodgingAnswers :
                     ENABLED RestStepWith({geocode}, {place}, {lodging})
           \/ rest_pc = "done" /\ ENABLED PlanStoreRestStops
    /\ plan_pc = "fuel" =>
           \/ /\ fuel_pc = "loop" /\ fuel_i \in 1..Len(steps)
              /\ \A outcome \in StationOutcomes, price \in PetrolPrices :
                     ENABLED FuelStepWith({outcome}, {price})
           \/ /\ fuel_pc = "dest"
              /\ \A outcome \in StationOutcomes, price \in PetrolPrices :
                     ENABLED FuelDestinationFillWith({outcome}, {price})
           \/ fuel_pc = "done" /\ ENABLED PlanCallMealStops
    /\ plan_pc = "meal" =>
           \/ meal_pc = "loop" /\ meal_i \in 1..Len(steps)
           \/ meal_pc = "done" /\ ENABLED PlanReturn

\* C17: plan_schedule returns None exactly when the route provider returned
\* no route, and then no walk has run and no event exists; with a route,
\* whichever of the station, price, lodging, restaurant and reverse-geocode
\* collaborators are down, the call never fails, goes on from phase to phase
\* and returns with the three event lists built.
C17_FailsOnlyWithoutRoute ==
    /\ [](plan_pc = "failed" <=> directions = "none")
    /\ [](plan_pc = "failed" => NothingProduced)
    /\ [](directions = "route" => plan_pc \in {"rest", "fuel", "meal", "done"})
    /\ [](directions = "route" => PlanCanProceed)
    /\ [](plan_pc = "done" =>
             /\ rest_pc = "done" /\ fuel_pc = "done" /\ meal_pc = "done"
             /\ fuel_stops # << >>)
    /\ [][(plan_pc \in {"rest", "fuel", "meal", "done"}) => (plan_pc' # "failed")]_vars

\* a returned itinerary of a call during which every collaborator was down:
\* station lookups raised, and a rest stop and a meal stop got neither a city
\* nor a lodging or restaurant
C17_Witness ==
    /\ plan_pc = "done"
    /\ outage = Collaborators
    /\ \E k \in 1..Len(station_calls) : station_calls[k].outcome = "error"
    /\ \E k \in 1..Len(rest_stops) :
           ~rest_stops[k].city /\ rest_stops[k].hotel_options = 0
    /\ \E k \in 1..Len(meal_stops) :
           ~meal_stops[k].city /\ meal_stops[k].restaurants_found = 0

----------------------------------------------------------------------------
(* Properties of the trip cost (CostSpec) *)

\* the sum of segment_cost over the fuel stops at the given positions
RECURSIVE CostOfStops(_)
CostOfStops(positions) ==
    IF positions = {} THEN NoCost
    ELSE LET k == CHOOSE n \in positions : TRUE
         IN  CostPlus(fuel_stops[k].segment_cost, CostOfStops(positions \ {k}))

\* C18: the total cost shown is the segment_cost of every intermediate fuel
\* stop and of the destination fill of the itinerary, each once, plus the
\* toll total; the fuel part is also the running total the fuel walk kept.
C18_TotalIsFuelStopsPlusToll ==
    app_pc = "shown" =>
        /\ DestinationStops = {Len(fuel_stops)}
        /\ total_cost = CostPlus(CostPlus(CostOfStops(IntermediateStops),
                                          CostOfStops(DestinationStops)),
                                 InCostUnits(toll_cost.total_toll))
        /\ total_cost = CostPlus(total_trip_fuel_cost, InCostUnits(toll_cost.total_toll))

\* a total made of an intermediate stop, a destination fill and a toll that
\* all cost something
C18_Witness ==
    /\ app_pc = "shown"
    /\ \E k \in IntermediateStops : fuel_stops[k].segment_cost # NoCost
    /\ Last(fuel_stops).segment_cost # NoCost
    /\ toll_cost.total_toll > 0

----------------------------------------------------------------------------
(* Specifications *)

\* lines 82-87: the locals of _calculate_fuel_stops before its loop
FuelStartAs(pc) ==
    /\ fuel_pc = pc
    /\ fuel_i = 1
    /\ current_fuel = FullTank
    /\ distance_covered_total = 0
    /\ last_fuel_stop_distance = Exactly(0, "m")
    /\ fuel_stops = << >>
    /\ total_trip_fuel_cost = NoCost
    /\ total_trip_fuel_used = 0
    /\ station_calls = << >>

\* variant of RestStartAs: total_time_needed starts at no time at all
RestStartAsFromZero(pc) ==
    /\ rest_pc = pc
    /\ rest_i = 1
    /\ rest_current_time = departure_time
    /\ seconds_driven_today = 0
    /\ rest_distance_covered = 0
    /\ rest_last_stop_distance = 0
    /\ total_time_needed = 0
    /\ rest_stops = << >>
    /\ driving_duration = Absent

\* lines 761-777: the locals of _calculate_rest_stops before its loop
RestStartAs(pc) ==
    /\ rest_pc = pc
    /\ rest_i = 1
    /\ rest_current_time = departure_time
    /\ seconds_driven_today = 0
    /\ rest_distance_covered = 0
    /\ rest_last_stop_distance = 0
    /\ total_time_needed = total_duration
    /\ rest_stops = << >>
    /\ driving_duration = Absent

\* lines 432-435 and 482: the locals of _calculate_meal_stops before its loop
MealStartAs(pc) ==
    /\ meal_pc = pc
    /\ meal_i = 1
    /\ meal_current_time = departure_time
    /\ meal_distance_covered = 0
    /\ meal_last_stop_distance = Metres(0)
    /\ processed_meal_times = {}
    /\ meal_stops = << >>
    /\ meal_k = 1

\* plan_schedule at position pc; self.rest_stops does not exist before the
\* first plan_schedule call and is never read before line 45 sets it
NoPlan == [fuel_stops |-> << >>, rest_stops |-> << >>, meal_stops |-> << >>,
           station_calls |-> << >>, driving_duration |-> Absent]

PlanAt(pc) ==
    /\ plan_pc = pc
    /\ self_rest_stops = << >>
    /\ directions = IF pc = "start" THEN "not_asked" ELSE "route"
    /\ plan_run = 1
    /\ first_plan = NoPlan
    /\ other_pc = "none"
    /\ returned_rest_stops = << >>

\* the plan flow of app.py at position pc, nothing computed yet
NoTollCost ==
    [total_toll |-> Absent, toll_booths |-> Absent, is_estimate |-> FALSE,
     toll_booth_details |-> << >>]

AppAt(pc) ==
    /\ app_pc = pc
    /\ api_key = TRUE
    /\ toll_response = NotCalled
    /\ fuel_cost = Absent
    /\ toll_cost = NoTollCost
    /\ total_cost = Absent

\* plan_schedule is called again on the same planner with the same arguments:
\* the locals of the three walks are new, self.rest_stops is what the
\* earlier call left
PlanAgain ==
    /\ plan_pc = "done" /\ plan_run = 1
    /\ first_plan' = [fuel_stops |-> fuel_stops, rest_stops |-> returned_rest_stops,
                      meal_stops |-> meal_stops, station_calls |-> station_calls,
                      driving_duration |-> driving_duration]
    /\ plan_run' = 2
    /\ plan_pc' = "start"
    /\ directions' = "not_asked"
    /\ UNCHANGED <<appVars, inputVars, self_rest_stops, other_pc>>
    /\ returned_rest_stops' = << >>
    /\ fuel_pc' = "idle" /\ fuel_i' = 1
    /\ current_fuel' = FullTank
    /\ distance_covered_total' = 0 /\ last_fuel_stop_distance' = Exactly(0, "m")
    /\ fuel_stops' = << >> /\ station_calls' = << >>
    /\ total_trip_fuel_cost' = NoCost /\ total_trip_fuel_used' = 0
    /\ rest_pc' = "idle" /\ rest_i' = 1
    /\ rest_current_time' = departure_time /\ seconds_driven_today' = 0
    /\ rest_distance_covered' = 0 /\ rest_last_stop_distance' = 0
    /\ total_time_needed' = total_duration /\ rest_stops' = << >>
    /\ driving_duration' = Absent
    /\ meal_pc' = "idle" /\ meal_i' = 1
    /\ meal_current_time' = departure_time
    /\ meal_distance_covered' = 0 /\ meal_last_stop_distance' = Metres(0)
    /\ processed_meal_times' = {} /\ meal_stops' = << >>
    /\ meal_k' = 1

\* the answers of the station and the price collaborator in RerunSpec
RerunOutcomes == {"station", "none"}
RerunPrices == {10000}

\* the answer the station collaborator gave to the same call of the first run
ReplayedCall == first_plan.station_calls[Len(station_calls) + 1]

ReplayedOutcomes ==
    IF Len(station_calls) < Len(first_plan.station_calls)
    THEN {ReplayedCall.outcome} ELSE RerunOutcomes

ReplayedPrices ==
    IF Len(station_calls) < Len(first_plan.station_calls)
    THEN {ReplayedCall.price} ELSE RerunPrices

\* the answer given to the call after that one
ReplayedNearbyOutcomes ==
    IF Len(station_calls) + 1 < Len(first_plan.station_calls)
    THEN {first_plan.station_calls[Len(station_calls) + 2].outcome} ELSE RerunOutcomes

\* the route: leg['steps'], and leg['distance']['value'] and
\* leg['duration']['value'] as the route provider answers them, which
\* plan_schedule takes as they are (lines 40-42): the sums over the steps, or
\* values that are off the sums by so many kilometres and hours
RouteOf(input_steps, distances_off_km, durations_off_hours) ==
    /\ steps \in input_steps
    /\ \E km \in distances_off_km, hours \in durations_off_hours :
         /\ total_distance = SumDistance(steps, Len(steps)) + km * 1000
         /\ total_duration = SumDuration(steps, Len(steps)) + hours * Hour
    /\ total_distance > 0
    /\ total_duration > 0

\* the preferences of app.py:246-253: driving 06:00-19:00, meals at 08:00,
\* 13:00 and 20:00
DefaultPreferences ==
    /\ driving_hours_start = 6 * Hour
    /\ driving_hours_end = 19 * Hour
    /\ breakfast_time = 8 * Hour
    /\ lunch_time = 13 * Hour
    /\ dinner_time = 20 * Hour

\* preferences of MealSpec: as the defaults, with a breakfast time that may be
\* set to the start of the driving window
MealPreferences ==
    /\ driving_hours_start = 6 * Hour
    /\ driving_hours_end = 19 * Hour
    /\ breakfast_time \in {h * Hour : h \in BreakfastHours}
    /\ lunch_time = 13 * Hour
    /\ dinner_time = 20 * Hour

\* a step driven at 72 km/h: d seconds are 20*d metres
TimedStep(seconds, contiguous) ==
    [distance |-> 20 * seconds, duration |-> seconds, contiguous |-> contiguous]

\* Spec: one plan_schedule call from its first line to its return
PlanInputSteps ==
    SeqsUpTo({[distance |-> kind[1] * 1000, duration |-> kind[2] * Hour,
               contiguous |-> TRUE] : kind \in PlanStepKinds}, MaxSteps)
        \ {<< >>}

Init ==
    /\ RouteOf(PlanInputSteps, LegDistancesOffKm, LegDurationsOffHours)
    /\ mileage \in VehicleMileages
    /\ tank_size \in VehicleTanks
    /\ departure_time \in {h * Hour : h \in DepartureHours}
    /\ DefaultPreferences
    /\ FuelStartAs("idle")
    /\ RestStartAs("idle")
    /\ MealStartAs("idle")
    /\ PlanAt("start")
    /\ AppAt("idle")
    /\ outage = {}
    /\ vehicle_type = "Car"

Next ==
    \/ PlanGetDirections
    \/ RestStep
    \/ PlanStoreRestStops
    \/ FuelStep
    \/ FuelDestinationFill
    \/ PlanCallMealStops
    \/ MealStop
    \/ MealStep
    \/ PlanReturn

Spec == Init /\ [][Next]_vars

\* the toll provider's answers in CostSpec: a failure, and routes with up to
\* MaxBooths booths of one kind
CostTollResponses ==
    {[kind |-> "network_error", tolls |-> << >>]}
        \cup {[kind |-> "routes", tolls |-> t]
                 : t \in SeqsUpTo({[cashCost |-> 40, tagCost |-> 35]}, MaxBooths)}

\* CostSpec: the plan flow of app.py from the plan_schedule call to the total
\* cost, the lodging, restaurant and city lookups all answering
CostInit ==
    /\ RouteOf(PlanInputSteps, SumOfSteps, SumOfSteps)
    /\ mileage \in VehicleMileages
    /\ tank_size \in VehicleTanks
    /\ departure_time = 6 * Hour
    /\ DefaultPreferences
    /\ FuelStartAs("idle")
    /\ RestStartAs("idle")
    /\ MealStartAs("idle")
    /\ PlanAt("start")
    /\ AppAt("plan")
    /\ outage = {}
    /\ vehicle_type = "Car"

CostNext ==
    \/ PlanGetDirections
    \/ RestStepWith({"city"}, {"found"}, {"hotels"})
    \/ PlanStoreRestStops
    \/ FuelStep
    \/ FuelDestinationFill
    \/ PlanCallMealStops
    \/ MealStopWith({"city"}, {"found"}, {"found"})
    \/ MealStep
    \/ PlanReturn
    \/ AppCheckSchedule
    \/ AppCalculateFuelCost
    \/ AppCalculateTollCostWith(CostTollResponses)
    \/ AppTotalCost

CostSpec == CostInit /\ [][CostNext]_vars

\* FailureSpec: one plan_schedule call during which any set of collaborators
\* is down; the route is made of 8-hour steps of 180 km
FailureInit ==
    /\ RouteOf(SeqsUpTo({[distance |-> 180 * 1000, duration |-> 8 * Hour,
                          contiguous |-> TRUE]}, MaxSteps) \ {<< >>},
               SumOfSteps, SumOfSteps)
    /\ mileage = 10
    /\ tank_size = 20
    /\ departure_time = 6 * Hour
    /\ DefaultPreferences
    /\ FuelStartAs("idle")
    /\ RestStartAs("idle")
    /\ MealStartAs("idle")
    /\ PlanAt("start")
    /\ AppAt("idle")
    /\ outage \in SUBSET Collaborators
    /\ vehicle_type = "Car"

FailureNext ==
    \/ PlanGetDirections
    \/ RestStepWith(AnswersOf("geocode", "city"), AnswersOf("restaurant", "found"),
                    AnswersOf("lodging", "hotels"))
    \/ PlanStoreRestStops
    \/ FuelStepWith(AnswersOf("station", "station"), PricesOf({10000}))
    \/ FuelDestinationFillWith(AnswersOf("station", "station"), PricesOf({10000}))
    \/ PlanCallMealStops
    \/ MealStopWith(AnswersOf("geocode", "city"), AnswersOf("restaurant", "found"),
                    AnswersOf("restaurant", "found"))
    \/ MealStep
    \/ PlanReturn

FailureSpec == FailureInit /\ [][FailureNext]_vars

\* a rest calendar left on the planner by a plan for the same day: departure
\* 06:00, steps of 13 hours and 1 hour, overnight rest from 19:00
EarlierRestStops ==
    << [time |-> 19 * Hour, city |-> TRUE, hotel_options |-> 1,
        distance |-> 20 * 13 * Hour,
        distance_from_last |-> 20 * 13 * Hour, is_destination |-> FALSE,
        is_overnight |-> TRUE, next_day_start |-> 30 * Hour,
        rest_duration |-> 11 * Hour, total_time_needed |-> 25 * Hour] >>

\* RerunSpec: plan_schedule called twice with the same arguments on a planner
\* that is new or has planned before; the collaborators answer the second
\* call as they answered the first, and each call reads the clock for itself
RerunInit ==
    /\ RouteOf(PlanInputSteps, SumOfSteps, SumOfSteps)
    /\ mileage \in VehicleMileages
    /\ tank_size \in VehicleTanks
    /\ departure_time \in {h * Hour : h \in DepartureHours}
    /\ DefaultPreferences
    /\ FuelStartAs("idle")
    /\ RestStartAs("idle")
    /\ MealStartAs("idle")
    /\ plan_pc = "start"
    /\ self_rest_stops \in {<< >>, EarlierRestStops}
    /\ directions = "not_asked"
    /\ plan_run = 1
    /\ first_plan = NoPlan
    /\ other_pc = "none"
    /\ returned_rest_stops = << >>
    /\ AppAt("idle")
    /\ outage = {}
    /\ vehicle_type = "Car"

RerunNext ==
    \/ plan_run = 1 /\ PlanGetDirections
    \/ plan_run = 1 /\ FuelStepWith(RerunOutcomes, RerunPrices)
    \/ plan_run = 1 /\ FuelDestinationFillWith(RerunOutcomes, RerunPrices)
    \/ plan_run = 2 /\ PlanGetDirectionsWith({TRUE})
    \/ plan_run = 2 /\ FuelStepWith(ReplayedOutcomes, ReplayedPrices)
    \/ plan_run = 2 /\ FuelDestinationFillAsked(ReplayedOutcomes, ReplayedNearbyOutcomes, ReplayedPrices)
    \/ RestStepOn(TodayReads, {"city"}, {"found"}, {"hotels"})
    \/ PlanStoreRestStops
    \/ PlanCallMealStops
    \/ MealStopWith({"city"}, {"found"}, {"found"})
    \/ MealStep
    \/ PlanReturn
    \/ PlanAgain

RerunSpec == RerunInit /\ [][RerunNext]_vars

\* FuelSpec: _calculate_fuel_stops alone
\* liters added over the first n events of fuel_stops
RECURSIVE SumSegmentFuel(_)
SumSegmentFuel(n) ==
    IF n = 0 THEN 0 ELSE SumSegmentFuel(n - 1) + fuel_stops[n].segment_fuel

\* C24: when every station lookup succeeds, the liters added over all events
\* of the returned sequence equal the fuel the route consumes (total distance
\* / mileage), and during the walk the level carried is a full tank minus the
\* fuel for the distance driven since the last stop, also when that stop lies
\* in the middle of a step.
C24_FuelConserved ==
    AllStationLookupsSucceeded =>
        /\ FuelReturned => SumSegmentFuel(Len(fuel_stops)) = total_distance
        /\ fuel_pc \in {"loop", "dest"} =>
               current_fuel.exact =
                   TankFuel - (distance_covered_total - last_fuel_stop_distance.exact)

\* C25: whatever the steps and whichever station lookups fail, no event of
\* the sequence, the destination fill included, adds more than the tank
\* holds, and the level the destination fill starts from is not negative.
C25_FillsWithinTank ==
    /\ \A k \in 1..Len(fuel_stops) : fuel_stops[k].segment_fuel <= TankFuel
    /\ fuel_pc = "dest" => current_fuel.exact >= 0

\* C26: when every station lookup succeeds and the route's total distance is
\* the sum of the step distances, the level carried after each step, after
\* the refuel of that step if there was one, is above the low-fuel level and
\* not above a full tank.
C26_LevelAfterStepAboveThreshold ==
    (/\ AllStationLookupsSucceeded
     /\ total_distance = SumDistance(steps, Len(steps))
     /\ fuel_pc \in {"loop", "dest"} /\ fuel_i > 1) =>
        /\ AmountBelow(LowFuelLevel, current_fuel)
        /\ AmountAtMost(current_fuel, FullTank)

\* the same without the condition on the total distance; it does not hold
\* in LegSpec: a search point is capped at total_distance and is skipped when
\* that does not lie beyond the last stop
C26_AlsoForOtherTotals ==
    (/\ AllStationLookupsSucceeded
     /\ fuel_pc \in {"loop", "dest"} /\ fuel_i > 1) =>
        /\ AmountBelow(LowFuelLevel, current_fuel)
        /\ AmountAtMost(current_fuel, FullTank)

\* the walk has ended with every lookup answered, two stops behind it, one
\* of them in the middle of a step, and less than a full tank
C26_Witness ==
    /\ AllStationLookupsSucceeded
    /\ total_distance = SumDistance(steps, Len(steps))
    /\ fuel_pc = "dest"
    /\ Len(fuel_stops) >= 2
    /\ \E k \in 1..Len(fuel_stops), n \in 1..Len(steps) :
           /\ SumDistance(steps, n - 1) < fuel_stops[k].distance
           /\ fuel_stops[k].distance < SumDistance(steps, n)
    /\ AmountBelow(current_fuel, FullTank)

\* the outcome of the three checks for the step the walk is about to process
DecisionForStep == RefuelDecision(fuel_i, current_fuel, distance_covered_total)

\* the level after the step the walk is about to process
LevelAfterStep == AmountMinus(current_fuel, FuelNeededForStep(steps[fuel_i].distance))

\* C30: the reactive check never marks a search point: whenever the level
\* after a step is at or below the low-fuel level the proactive check has
\* fired on that step, so every search point comes from the proactive check
\* or from the check on the next step.
C30_ReactiveNeverFires ==
    fuel_pc = "loop" =>
        \E fuel_needed_for_step \in {FuelNeededForStep(steps[fuel_i].distance)},
           decision \in {DecisionForStep} :
            /\ AmountAtMost(Exactly(0, "litres"), fuel_needed_for_step)
            /\ AmountAtMost(AmountMinus(current_fuel, fuel_needed_for_step), LowFuelLevel) =>
                   ProactiveCheck(current_fuel, fuel_needed_for_step)
            /\ decision.trigger # "reactive"
            /\ decision.perform => decision.trigger \in {"proactive", "next_step"}

\* after a failed lookup the tank is below the reserve at the start of a step
\* and the level after the step is lower still: the proactive check marks
\* the search point
C30_Witness ==
    /\ fuel_pc = "loop" /\ fuel_i > 1
    /\ SomeStationLookupFailed
    /\ AmountAtMost(current_fuel, LowFuelLevel)
    /\ AmountAtMost(LevelAfterStep, LowFuelLevel)
    /\ DecisionForStep.trigger = "proactive"

FuelInputSteps ==
    SeqsUpTo({[distance |-> km * 1000, duration |-> Hour, contiguous |-> TRUE]
                 : km \in StepDistancesKm}, MaxSteps) \ {<< >>}

FuelInit ==
    /\ RouteOf(FuelInputSteps, LegDistancesOffKm, SumOfSteps)
    /\ mileage \in VehicleMileages
    /\ tank_size \in VehicleTanks
    /\ departure_time = 6 * Hour
    /\ DefaultPreferences
    /\ FuelStartAs("loop")
    /\ RestStartAs("idle")
    /\ MealStartAs("idle")
    /\ PlanAt("fuel")
    /\ AppAt("idle")
    /\ outage = {}
    /\ vehicle_type = "Car"

FuelNext == FuelStep \/ FuelDestinationFill

FuelSpec == FuelInit /\ [][FuelNext]_vars

\* LegSpec: the fuel walk over routes whose total distance is the sum of the
\* step distances or falls short of it
LegInit ==
    /\ RouteOf(FuelInputSteps, LegShortfallsKm, SumOfSteps)
    /\ mileage \in VehicleMileages
    /\ tank_size \in VehicleTanks
    /\ departure_time = 6 * Hour
    /\ DefaultPreferences
    /\ FuelStartAs("loop")
    /\ RestStartAs("idle")
    /\ MealStartAs("idle")
    /\ PlanAt("fuel")
    /\ AppAt("idle")
    /\ outage = {}
    /\ vehicle_type = "Car"

LegSpec == LegInit /\ [][FuelNext]_vars

\* the ways of dividing a trip of km kilometres into steps of the lengths parts
RECURSIVE RoutesTotalling(_, _)
RoutesTotalling(km, parts) ==
    IF km = 0 THEN {<< >>}
    ELSE UNION {{<<[distance |-> d * 1000, duration |-> Hour, contiguous |-> TRUE]>> \o rest
                    : rest \in RoutesTotalling(km - d, parts)}
                   : d \in {x \in parts : x <= km}}

\* Trip500Spec: _calculate_fuel_stops on 500 km, 20 km/l, 40 l tank
Trip500Init ==
    /\ RouteOf(RoutesTotalling(500, Trip500SegmentsKm), SumOfSteps, SumOfSteps)
    /\ mileage = 20
    /\ tank_size = 40
    /\ departure_time = 6 * Hour
    /\ DefaultPreferences
    /\ FuelStartAs("loop")
    /\ RestStartAs("idle")
    /\ MealStartAs("idle")
    /\ PlanAt("fuel")
    /\ AppAt("idle")
    /\ outage = {}
    /\ vehicle_type = "Car"

Trip500Spec == Trip500Init /\ [][FuelNext]_vars

\* Trip1000Spec: _calculate_fuel_stops on 1000 km, 15 km/l, 40 l tank
Trip1000Init ==
    /\ RouteOf(RoutesTotalling(1000, Trip1000SegmentsKm), SumOfSteps, SumOfSteps)
    /\ mileage = 15
    /\ tank_size = 40
    /\ departure_time = 6 * Hour
    /\ DefaultPreferences
    /\ FuelStartAs("loop")
    /\ RestStartAs("idle")
    /\ MealStartAs("idle")
    /\ PlanAt("fuel")
    /\ AppAt("idle")
    /\ outage = {}
    /\ vehicle_type = "Car"

Trip1000Spec == Trip1000Init /\ [][FuelNext]_vars

\* TollSpec: calculate_toll_cost alone, for a TollService built with or without
\* TOLLGURU_API_KEY
TollInit ==
    /\ RouteOf({<<[distance |-> 100 * 1000, duration |-> Hour, contiguous |-> TRUE]>>},
               SumOfSteps, SumOfSteps)
    /\ mileage = 10
    /\ tank_size = 20
    /\ departure_time = 6 * Hour
    /\ DefaultPreferences
    /\ FuelStartAs("idle")
    /\ RestStartAs("idle")
    /\ MealStartAs("idle")
    /\ PlanAt("done")
    /\ outage = {}
    /\ vehicle_type \in {"Car", "Bike"}
    /\ api_key \in BOOLEAN
    /\ app_pc = "toll"
    /\ toll_response = NotCalled
    /\ fuel_cost = Absent
    /\ toll_cost = NoTollCost
    /\ total_cost = Absent

TollSpec == TollInit /\ [][AppCalculateTollCost]_vars

\* RestSpec: _calculate_rest_stops alone
RestInputSteps ==
    SeqsUpTo({TimedStep(h * Hour, TRUE) : h \in StepDurationsHours}, MaxSteps) \ {<< >>}

RestInit ==
    /\ RouteOf(RestInputSteps, SumOfSteps, LegDurationsOffHours)
    /\ mileage = 10
    /\ tank_size = 20
    /\ departure_time \in {h * Hour : h \in DepartureHours}
    /\ DefaultPreferences
    /\ FuelStartAs("idle")
    /\ RestStartAs("loop")
    /\ MealStartAs("idle")
    /\ PlanAt("rest")
    /\ AppAt("idle")
    /\ outage = {}
    /\ vehicle_type = "Car"

RestNext == RestStep

RestSpec == RestInit /\ [][RestNext]_vars

\* MealSpec: plan_schedule from its first line, with a station collaborator
\* that finds nothing, so that the fuel walk between the rest walk and the
\* meal walk does not branch
MealInputSteps ==
    SeqsUpTo({TimedStep(m * 60, c) : m \in MealStepDurationsMinutes, c \in BOOLEAN},
             MaxSteps)
        \ {<< >>}

MealInit ==
    /\ RouteOf(MealInputSteps, SumOfSteps, SumOfSteps)
    /\ mileage = 10
    /\ tank_size = 20
    /\ departure_time \in {h * Hour : h \in DepartureHours}
    /\ MealPreferences
    /\ FuelStartAs("idle")
    /\ RestStartAs("idle")
    /\ MealStartAs("idle")
    /\ PlanAt("start")
    /\ AppAt("idle")
    /\ outage = {}
    /\ vehicle_type = "Car"

\* the city, lodging and restaurant lookups all answer
MealNext ==
    \/ PlanGetDirections
    \/ RestStepWith({"city"}, {"found"}, {"hotels"})
    \/ PlanStoreRestStops
    \/ FuelStepWith({"none"}, {10000})
    \/ FuelDestinationFillWith({"none"}, {10000})
    \/ PlanCallMealStops
    \/ MealStopWith({"city"}, {"found"}, {"found"})
    \/ MealStep
    \/ PlanReturn

MealSpec == MealInit /\ [][MealNext]_vars

\* ScenarioSpec: _calculate_rest_stops on a 20-hour drive in segments of 1 or
\* 2 hours, departure 06:00, window 06:00-19:00
ScenarioStepHours == {1, 2}

RECURSIVE StepsTotalling(_)
StepsTotalling(hours) ==
    IF hours = 0 THEN {<< >>}
    ELSE UNION {{<<TimedStep(h * Hour, TRUE)>> \o rest : rest \in StepsTotalling(hours - h)}
                   : h \in {x \in ScenarioStepHours : x <= hours}}

ScenarioInit ==
    /\ RouteOf(StepsTotalling(20), SumOfSteps, SumOfSteps)
    /\ mileage = 10
    /\ tank_size = 20
    /\ departure_time = 6 * Hour
    /\ DefaultPreferences
    /\ FuelStartAs("idle")
    /\ RestStartAs("loop")
    /\ MealStartAs("idle")
    /\ PlanAt("rest")
    /\ AppAt("idle")
    /\ outage = {}
    /\ vehicle_type = "Car"

\* the city and lodging lookups of the scenario all answer
ScenarioNext == RestStepWith({"city"}, {"found"}, {"hotels"})

ScenarioSpec == ScenarioInit /\ [][ScenarioNext]_vars

\* what the rest walk of the other call can have returned: no rest, or the
\* calendar of a plan for the same day
OtherRestCalendars == {<< >>, EarlierRestStops}

\* ConcurrentSpec: plan_schedule from its first line, while another call on
\* the same planner stores its rest calendar at any moment; the city, lodging
\* and restaurant lookups all answer and no station is found
ConcurrentInit ==
    /\ RouteOf(RestInputSteps, SumOfSteps, SumOfSteps)
    /\ mileage = 10
    /\ tank_size = 20
    /\ departure_time \in {h * Hour : h \in DepartureHours}
    /\ DefaultPreferences
    /\ FuelStartAs("idle")
    /\ RestStartAs("idle")
    /\ MealStartAs("idle")
    /\ plan_pc = "start"
    /\ self_rest_stops = << >>
    /\ directions = "not_asked"
    /\ plan_run = 1
    /\ first_plan = NoPlan
    /\ other_pc = "running"
    /\ returned_rest_stops = << >>
    /\ AppAt("idle")
    /\ outage = {}
    /\ vehicle_type = "Car"

ConcurrentNext ==
    \/ PlanGetDirectionsWith({TRUE})
    \/ RestStepWith({"city"}, {"found"}, {"hotels"})
    \/ PlanStoreRestStops
    \/ OtherPlanStoresRestStops(OtherRestCalendars)
    \/ FuelStepWith({"none"}, {10000})
    \/ FuelDestinationFillWith({"none"}, {10000})
    \/ PlanCallMealStops
    \/ MealStopWith({"city"}, {"found"}, {"found"})
    \/ MealStep
    \/ PlanReturn

ConcurrentSpec == ConcurrentInit /\ [][ConcurrentNext]_vars

\* InterleavedSpec: the rest walk and the fuel walk one after the other, as
\* plan_schedule calls them, and then once more with their steps interleaved,
\* the collaborators answering as they did the first time
InterleavedInit ==
    /\ RouteOf(PlanInputSteps, SumOfSteps, SumOfSteps)
    /\ mileage \in VehicleMileages
    /\ tank_size \in VehicleTanks
    /\ departure_time \in {h * Hour : h \in DepartureHours}
    /\ DefaultPreferences
    /\ FuelStartAs("idle")
    /\ RestStartAs("loop")
    /\ MealStartAs("idle")
    /\ PlanAt("rest")
    /\ AppAt("idle")
    /\ outage = {}
    /\ vehicle_type = "Car"

InterleavedNext ==
    \/ RestStepWith({"city"}, {"found"}, {"hotels"})
    \/ PlanStoreRestStops
    \/ plan_run = 1 /\ FuelStepWith(RerunOutcomes, RerunPrices)
    \/ plan_run = 1 /\ FuelDestinationFillWith(RerunOutcomes, RerunPrices)
    \/ PlanWalksTogether
    \/ plan_run = 2 /\ FuelStepWith(ReplayedOutcomes, ReplayedPrices)
    \/ plan_run = 2 /\ FuelDestinationFillAsked(ReplayedOutcomes, ReplayedNearbyOutcomes, ReplayedPrices)
    \/ PlanWalksJoin

InterleavedSpec == InterleavedInit /\ [][InterleavedNext]_vars

====
